---- MODULE Spec2Model ----
(***************************************************************************)
(* State-machine models of components of td_generator:                     *)
(*   - core/integration/collaboration.py : Session (users and file locks)  *)
(*   - core/production/performance.py    : CacheManager, LoadBalancer,     *)
(*                                         PerformanceSystem.optimize_task *)
(*   - core/production/scalability.py    : ClusterManager,                 *)
(*                                         DistributedProcessor            *)
(*   - core/production/testing.py        : TestRunner, TestingSystem       *)
(*   - core/gates.py, core/gates/        : the gate managers               *)
(*   - core/integration/realtime.py      : DocumentPreview, UpdateQueue    *)
(*   - core/operations/enhancement_manager.py : features and releases      *)
(*   - core/global/support_manager.py    : teams and cases                 *)
(*   - core/operations/monitoring_manager.py  : metrics and alerts         *)
(*   - core/enterprise/automation_systems.py  : AutomationSystems          *)
(*   - core/market_entry/integration_manager.py : run_test_case            *)
(*   - core/market_entry/crm_validation.py    : CRMValidator               *)
(*   - core/documentation/quality.py          : QualityChecker             *)
(*   - the background loops of the session, support and cluster managers   *)
(*   - core/market_expansion/product_enhancer.py : update_solution         *)
(*   - core/market_entry/marketing_manager.py : update_content             *)
(* Each component has its own specification (SpecSession, SpecCache, ...); *)
(* the variables of the other components stay at their initial values.     *)
(***************************************************************************)
EXTENDS Integers, Sequences, FiniteSets, TLC

VARIABLES
    users,      \* Session.users: the ids of the users in the session
    locks,      \* Session.locks: file_path -> holder user id (NoUser: no entry)
    sLast,      \* the last Session call: its arguments, result and pre-state
    cache,      \* CacheManager.cache: the entries in insertion order
    hits,       \* CacheManager.hits
    misses,     \* CacheManager.misses
    setLog,     \* the keys passed to CacheManager.set since construction/clear
    lastRead,   \* the key of the most recent CacheManager.get (NoKey: none)
    workers,    \* LoadBalancer.workers: the workers in insertion order
    cLast,      \* the last CacheManager/PerformanceSystem call and its result
    nodes,      \* ClusterManager.nodes: the Node records in insertion order
    tasks,      \* ClusterManager.tasks: task id -> Task (NoTask: no entry)
    pc,         \* process_task callers: where each one is
    ptid,       \* process_task callers: the id of the Task each one built
    pown,       \* process_task callers: the Task each one polls, once it
                \* is no longer the one in ClusterManager.tasks
    pret,       \* process_task callers: the value returned
    now,        \* datetime.now(), in seconds
    kLast,      \* the last ClusterManager/DistributedProcessor call
    tests,      \* TestRunner.tests: the TestCases in registration order
    results,    \* TestRunner.results: test id -> status ("none": no entry)
    tLast,      \* the last TestRunner.run_test call and its result
    suitePc,    \* run_suite: where the call is
    suite,      \* run_suite: the filtered tests, in registration order
    suiteTodo,  \* run_suite: what is left of sorted_tests
    suiteLog    \* run_suite: the tests it has run, in order

VARIABLES
    sysResults, \* TestingSystem: tester -> its runner's results (by test id)
    sysRuns,    \* the run_test executions that recorded a result so far
    sysRan,     \* the <<tester, test id>> pairs of those executions
    sysPc,      \* the tester whose run_suite is under way ("none": no suite)
    sysTodo     \* that run_suite: what is left of sorted_tests

VARIABLES
    gGate,      \* execute_gate: the Gate manager of the call (0..4)
    gPc,        \* execute_gate: where the call is
    gIdx,       \* execute_gate: the place of the current step in steps
    gResults,   \* execute_gate: results, as <<step name, value>> in order
    gValidated, \* the validate() calls awaited: <<step name, valid>>
    gInvoked,   \* the execute() calls awaited: <<step name, raised, message>>
    gRet        \* what the call returned (status "raised": it raised)

VARIABLES
    pvContent,   \* DocumentPreview.content
    pvVersion,   \* DocumentPreview.version
    pvObservers, \* DocumentPreview.observers: the callbacks, in list order
    pvUpdates,   \* the update_content calls made so far
    pvCalls,     \* the observer calls of the last update_content, in order:
                 \* <<observer, content, version>>
    pvLast       \* the last DocumentPreview call and the observers before it

VARIABLES
    qQueue,      \* UpdateQueue.queue: the events waiting, oldest first
    qProcessors, \* UpdateQueue.processors: event type -> the handler's kind
    qPc,         \* process_events: "waiting" in queue.get or "handling"
    qEvent,      \* process_events: the event being handled
    qProc,       \* process_events: the processor it looked up for that event
    qPushed,     \* the events pushed so far, in order
    qHandled     \* the events consumed so far: <<event number, outcome>>

VARIABLES
    features,   \* EnhancementManager.features: id -> Feature (NoFeature: none)
    releases,   \* EnhancementManager.releases: id -> Release (NoRelease: none)
    eLast       \* the last EnhancementManager call

VARIABLES
    supTeams,   \* SupportManager.teams: the TeamProfiles in insertion order
    supCases,   \* SupportManager.cases: team id -> its list of cases
    supCase,    \* the SupportCase objects, by number (NoCase: not created)
    supQueue,   \* SupportManager._case_queue: the cases in it
    supTasks,   \* the _find_and_reassign tasks created and not yet run
    supLast     \* the last SupportManager call

VARIABLES
    monData,    \* MonitoringManager.metrics[m].data: the values recorded
    monAlerts,  \* MonitoringManager.alerts: id (second) -> Alert (NoAlert)
    monCreated, \* the Alerts create_alert has built so far, in order
    monNow,     \* datetime.now(), in seconds
    monLast     \* the last MonitoringManager call

VARIABLES
    autoTasks,  \* AutomationSystems.tasks: id -> AutomationTask
    autoDisk,   \* the files tasks/<id>.json
    autoJobs,   \* the task ids of the scheduler's jobs, in order
    autoNow,    \* datetime.now(), in seconds
    autoLast    \* the last AutomationSystems call, with the creates so far

VARIABLES
    autoExecs,  \* AutomationSystems.executions: task id -> TaskExecutions
    autoThread  \* the scheduler thread: "stopped", "running" or "dead"

VARIABLES
    imStatus,   \* IntegrationManager.test_cases[c].status
    imResults,  \* IntegrationManager.results: case id -> TestResults
    imLast      \* the last IntegrationManager.run_test_case call

VARIABLES
    crmResults, \* CRMValidator.validation_results
    crmLast     \* the last run_validation_suite call: what the CRM manager held

VARIABLES
    qcLast      \* the last QualityChecker.check_quality call and its result

VARIABLES
    loopState,  \* each background loop: "running" or "terminated"
    loopIters,  \* the iterations each background loop has begun
    loopErrors, \* the errors each background loop has logged
    loopLast    \* the last iteration: its loop and whether its body raised

VARIABLES
    peKnown,    \* ProductEnhancer.features and .integrations: the ids
    peSolution, \* ProductEnhancer.solutions: the CustomSolution (NoSolution)
    peFile,     \* the file solutions/<id>.json
    mmItem,     \* MarketingManager.content: the ContentItem (NoItem)
    mmFile,     \* the file <type>/<id>.json
    updLast     \* the last ProductEnhancer or MarketingManager call

sessVars == <<users, locks, sLast>>
perfVars == <<cache, hits, misses, setLog, lastRead, workers, cLast>>
clusterVars == <<nodes, tasks, pc, ptid, pown, pret, now, kLast>>
testVars == <<tests, results, tLast, suitePc, suite, suiteTodo, suiteLog>>
sysVars == <<sysResults, sysRuns, sysRan, sysPc, sysTodo>>
gateVars == <<gGate, gPc, gIdx, gResults, gValidated, gInvoked, gRet>>
previewVars ==
    <<pvContent, pvVersion, pvObservers, pvUpdates, pvCalls, pvLast>>
queueVars == <<qQueue, qProcessors, qPc, qEvent, qProc, qPushed, qHandled>>
enhVars == <<features, releases, eLast>>
supVars == <<supTeams, supCases, supCase, supQueue, supTasks, supLast>>
monVars == <<monData, monAlerts, monCreated, monNow, monLast>>
autoVars ==
    <<autoTasks, autoDisk, autoJobs, autoNow, autoLast, autoExecs,
      autoThread>>
imVars == <<imStatus, imResults, imLast>>
crmVars == <<crmResults, crmLast>>
qcVars == <<qcLast>>
loopVars == <<loopState, loopIters, loopErrors, loopLast>>
updVars == <<peKnown, peSolution, peFile, mmItem, mmFile, updLast>>

vars ==
    <<sessVars, perfVars, clusterVars, testVars, sysVars, gateVars,
      previewVars, queueVars, enhVars, supVars, monVars, autoVars, imVars,
      crmVars, qcVars, loopVars, updVars>>

\* what the calls on one component leave alone
notSess ==
    <<perfVars, clusterVars, testVars, sysVars, gateVars, previewVars,
      queueVars, enhVars, supVars, monVars, autoVars, imVars, crmVars,
      qcVars, loopVars, updVars>>
notPerf ==
    <<sessVars, clusterVars, testVars, sysVars, gateVars, previewVars,
      queueVars, enhVars, supVars, monVars, autoVars, imVars, crmVars,
      qcVars, loopVars, updVars>>
notCluster ==
    <<sessVars, perfVars, testVars, sysVars, gateVars, previewVars,
      queueVars, enhVars, supVars, monVars, autoVars, imVars, crmVars,
      qcVars, loopVars, updVars>>
notTest ==
    <<sessVars, perfVars, clusterVars, sysVars, gateVars, previewVars,
      queueVars, enhVars, supVars, monVars, autoVars, imVars, crmVars,
      qcVars, loopVars, updVars>>
notSys ==
    <<sessVars, perfVars, clusterVars, testVars, gateVars, previewVars,
      queueVars, enhVars, supVars, monVars, autoVars, imVars, crmVars,
      qcVars, loopVars, updVars>>
notGate ==
    <<sessVars, perfVars, clusterVars, testVars, sysVars, previewVars,
      queueVars, enhVars, supVars, monVars, autoVars, imVars, crmVars,
      qcVars, loopVars, updVars>>
notPreview ==
    <<sessVars, perfVars, clusterVars, testVars, sysVars, gateVars,
      queueVars, enhVars, supVars, monVars, autoVars, imVars, crmVars,
      qcVars, loopVars, updVars>>
notQueue ==
    <<sessVars, perfVars, clusterVars, testVars, sysVars, gateVars,
      previewVars, enhVars, supVars, monVars, autoVars, imVars, crmVars,
      qcVars, loopVars, updVars>>
notEnh ==
    <<sessVars, perfVars, clusterVars, testVars, sysVars, gateVars,
      previewVars, queueVars, supVars, monVars, autoVars, imVars, crmVars,
      qcVars, loopVars, updVars>>
notSup ==
    <<sessVars, perfVars, clusterVars, testVars, sysVars, gateVars,
      previewVars, queueVars, enhVars, monVars, autoVars, imVars, crmVars,
      qcVars, loopVars, updVars>>
notMon ==
    <<sessVars, perfVars, clusterVars, testVars, sysVars, gateVars,
      previewVars, queueVars, enhVars, supVars, autoVars, imVars, crmVars,
      qcVars, loopVars, updVars>>
notAuto ==
    <<sessVars, perfVars, clusterVars, testVars, sysVars, gateVars,
      previewVars, queueVars, enhVars, supVars, monVars, imVars, crmVars,
      qcVars, loopVars, updVars>>
notIm ==
    <<sessVars, perfVars, clusterVars, testVars, sysVars, gateVars,
      previewVars, queueVars, enhVars, supVars, monVars, autoVars, crmVars,
      qcVars, loopVars, updVars>>
notCrm ==
    <<sessVars, perfVars, clusterVars, testVars, sysVars, gateVars,
      previewVars, queueVars, enhVars, supVars, monVars, autoVars, imVars,
      qcVars, loopVars, updVars>>
notQc ==
    <<sessVars, perfVars, clusterVars, testVars, sysVars, gateVars,
      previewVars, queueVars, enhVars, supVars, monVars, autoVars, imVars,
      crmVars, loopVars, updVars>>
notLoop ==
    <<sessVars, perfVars, clusterVars, testVars, sysVars, gateVars,
      previewVars, queueVars, enhVars, supVars, monVars, autoVars, imVars,
      crmVars, qcVars, updVars>>
notUpd ==
    <<sessVars, perfVars, clusterVars, testVars, sysVars, gateVars,
      previewVars, queueVars, enhVars, supVars, monVars, autoVars, imVars,
      crmVars, qcVars, loopVars>>

(***************************************************************************)
(* Bounds                                                                  *)
(***************************************************************************)
MaxUsers == 2
MaxFiles == 2
MaxSize == 2        \* CacheManager.max_size (a constructor argument)
MaxSets == 4        \* CacheManager.set calls between two clears
MaxGets == 3        \* CacheManager.get calls between two clears
MaxNodes == 2       \* node ids
MaxProcs == 1       \* concurrent process_task callers
MaxTime == 46       \* the clock stops here (seconds)
MaxDeps == 2        \* declared dependencies of one TestCase
MaxRuns == 5        \* run_test executions on the TestingSystem's runners
MaxObservers == 3   \* entries of DocumentPreview.observers
MaxVersion == 3     \* update_content calls on one DocumentPreview
MaxEvents == 4      \* events pushed to the UpdateQueue
ConcurrentCases == 2 \* capacity["concurrent_cases"] of a team (10 in create_team)
MaxPoints == 2      \* metric points recorded
MaxCreates == 3     \* automation tasks created
MaxExecs == 2       \* automation task executions
MaxCaseRuns == 2    \* TestResults recorded by the integration manager
MaxIters == 3       \* iterations of one background loop
MaxUpdates == 1     \* saved updates of one solution or content item

(***************************************************************************)
(* collaboration.py : Session                                              *)
(***************************************************************************)
Users == 1..MaxUsers
Files == 1..MaxFiles
NoUser == 0

\* the keys of the dict self.locks
LockedFiles(l) == {f \in Files : l[f] # NoUser}

\* Session.__init__
SessionInit ==
    /\ users = {}
    /\ locks = [f \in Files |-> NoUser]
    /\ sLast = [op |-> "init", u |-> NoUser, f |-> 0, ret |-> FALSE,
                member |-> FALSE, pre |-> [f \in Files |-> NoUser]]

\* Session.add_user
add_user(u) ==
    /\ users' = users \cup {u}
    /\ UNCHANGED locks
    /\ sLast' = [op |-> "add_user", u |-> u, f |-> 0, ret |-> TRUE,
                 member |-> u \in users, pre |-> locks]
    /\ UNCHANGED notSess

\* Session.acquire_lock: the lock map after the call
AcquireLocksBug(l, u, f) == [l EXCEPT ![f] = u]
AcquireLocks(l, u, f) ==
    IF f \notin LockedFiles(l) THEN [l EXCEPT ![f] = u] ELSE l

\* Session.acquire_lock: the returned value
AcquireRet(l, u, f) == f \notin LockedFiles(l)

acquire_lock(u, f) ==
    /\ locks' = AcquireLocks(locks, u, f)
    /\ UNCHANGED users
    /\ sLast' = [op |-> "acquire_lock", u |-> u, f |-> f,
                 ret |-> AcquireRet(locks, u, f),
                 member |-> u \in users, pre |-> locks]
    /\ UNCHANGED notSess

\* Session.release_lock: the lock map after the call
ReleaseLocks(l, u, f) ==
    IF f \in LockedFiles(l) /\ l[f] = u THEN [l EXCEPT ![f] = NoUser] ELSE l

ReleaseRet(l, u, f) == f \in LockedFiles(l) /\ l[f] = u

release_lock(u, f) ==
    /\ locks' = ReleaseLocks(locks, u, f)
    /\ UNCHANGED users
    /\ sLast' = [op |-> "release_lock", u |-> u, f |-> f,
                 ret |-> ReleaseRet(locks, u, f),
                 member |-> u \in users, pre |-> locks]
    /\ UNCHANGED notSess

\* Session._release_user_locks: release_lock(user_id, f) for every f the
\* user holds; the calls touch distinct files, so their order is immaterial
ReleaseUserLocksBug(l, u) == l
ReleaseUserLocks(l, u) ==
    LET locked_files == {f \in LockedFiles(l) : l[f] = u}
    IN  [f \in Files |-> IF f \in locked_files THEN ReleaseLocks(l, u, f)[f]
                         ELSE l[f]]

\* Session.remove_user
remove_user(u) ==
    /\ IF u \in users
       THEN /\ users' = users \ {u}
            /\ locks' = ReleaseUserLocks(locks, u)
       ELSE UNCHANGED <<users, locks>>
    /\ sLast' = [op |-> "remove_user", u |-> u, f |-> 0, ret |-> TRUE,
                 member |-> u \in users, pre |-> locks]
    /\ UNCHANGED notSess

(***************************************************************************)
(* performance.py : CacheManager                                           *)
(***************************************************************************)
\* optimize_task's cache_key f"{task_id}:{args}:{kwargs}": one string per
\* (task id, arguments) pair; PTasks x PArgs stands for the strings in use
PTasks == 1..2
PArgs == 1..2
Keys == PTasks \X PArgs
NoKey == <<0, 0>>
CacheKey(task_id, args) == <<task_id, args>>

None == 0
Vals == {1, 2}                \* the values a task function returns

\* the keys of the dict self.cache, in iteration order
CacheKeys(c) == [i \in 1..Len(c) |-> c[i].key]
KeySet(c) == {c[i].key : i \in 1..Len(c)}
\* self.cache[key]
CacheVal(c, key) == c[CHOOSE i \in 1..Len(c) : c[i].key = key].val

\* self.cache[key] = value: an existing key keeps its place, a new one is last
DictSet(c, key, value) ==
    IF key \in KeySet(c)
    THEN [i \in 1..Len(c) |->
            IF c[i].key = key THEN [key |-> key, val |-> value] ELSE c[i]]
    ELSE Append(c, [key |-> key, val |-> value])

\* CacheManager.set: the cache after the call
CacheSetNoEvict(c, key, value) == DictSet(c, key, value)
CacheSetEvictNewest(c, key, value) ==
    DictSet(IF Len(c) >= MaxSize THEN SubSeq(c, 1, Len(c) - 1) ELSE c,
            key, value)
CacheSetEvictIfAbsent(c, key, value) ==
    DictSet(IF Len(c) >= MaxSize /\ key \notin KeySet(c) THEN Tail(c) ELSE c,
            key, value)
CacheSet(c, key, value) ==
    DictSet(IF Len(c) >= MaxSize THEN Tail(c) ELSE c, key, value)

\* CacheManager.get: the returned value
CacheGet(c, key) == IF key \in KeySet(c) THEN CacheVal(c, key) ELSE None

\* CacheManager.get: the counters after the call
HitsAfterGetBug(c, key, h) == h
HitsAfterGet(c, key, h) == IF key \in KeySet(c) THEN h + 1 ELSE h
MissesAfterGet(c, key, m) == IF key \in KeySet(c) THEN m ELSE m + 1

CLastInit ==
    [op |-> "init", key |-> NoKey, ret |-> None, present |-> FALSE,
     preVal |-> None, dHits |-> 0, dMisses |-> 0, invoked |-> FALSE,
     raised |-> FALSE]

\* CacheManager.__init__, LoadBalancer.__init__
PerfInit ==
    /\ cache = <<>>
    /\ hits = 0
    /\ misses = 0
    /\ setLog = <<>>
    /\ lastRead = NoKey
    /\ workers = <<>>
    /\ cLast = CLastInit

\* CacheManager.get
cache_get(key) ==
    /\ hits + misses < MaxGets
    /\ hits' = HitsAfterGet(cache, key, hits)
    /\ misses' = MissesAfterGet(cache, key, misses)
    /\ lastRead' = key
    /\ cLast' = [CLastInit EXCEPT !.op = "get", !.key = key,
                    !.ret = CacheGet(cache, key),
                    !.present = key \in KeySet(cache),
                    !.preVal = CacheGet(cache, key),
                    !.dHits = hits' - hits, !.dMisses = misses' - misses]
    /\ UNCHANGED <<cache, setLog, workers>>
    /\ UNCHANGED notPerf

\* CacheManager.set
cache_set(key, value) ==
    /\ Len(setLog) < MaxSets
    /\ cache' = CacheSet(cache, key, value)
    /\ setLog' = Append(setLog, key)
    /\ cLast' = [CLastInit EXCEPT !.op = "set", !.key = key, !.ret = value,
                    !.present = key \in KeySet(cache),
                    !.preVal = CacheGet(cache, key)]
    /\ UNCHANGED <<hits, misses, lastRead, workers>>
    /\ UNCHANGED notPerf

\* CacheManager.clear
cache_clear ==
    /\ cache' = <<>>
    /\ hits' = 0
    /\ misses' = 0
    /\ setLog' = <<>>
    /\ lastRead' = NoKey
    /\ cLast' = [CLastInit EXCEPT !.op = "clear"]
    /\ UNCHANGED workers
    /\ UNCHANGED notPerf

(***************************************************************************)
(* performance.py : LoadBalancer                                           *)
(***************************************************************************)
WorkerIds == {1, 2}
Caps == {0, 1, 2}           \* capacities passed to register_worker
CpuVals == {0, 50}          \* psutil.cpu_percent() samples
NoWorker == 0

WorkerIdSet(w) == {w[i].id : i \in 1..Len(w)}

\* LoadBalancer.register_worker
RegisterWorker(w, worker_id, capacity) ==
    LET rec == [id |-> worker_id, capacity |-> capacity, load |-> 0]
    IN  IF worker_id \in WorkerIdSet(w)
        THEN [i \in 1..Len(w) |-> IF w[i].id = worker_id THEN rec ELSE w[i]]
        ELSE Append(w, rec)

\* LoadBalancer.remove_worker
RECURSIVE RemoveWorker(_, _)
RemoveWorker(w, worker_id) ==
    IF w = <<>> THEN <<>>
    ELSE IF Head(w).id = worker_id THEN Tail(w)
    ELSE <<Head(w)>> \o RemoveWorker(Tail(w), worker_id)

\* LoadBalancer.get_best_worker divides current_load by capacity for every
\* worker: it raises ZeroDivisionError when some capacity is 0
BestWorkerRaises(w) == \E i \in 1..Len(w) : w[i].capacity = 0

\* LoadBalancer.get_best_worker: min() keeps the first worker of least
\* current_load / capacity (compared here by cross-multiplication)
BestWorker(w) ==
    IF w = <<>> THEN NoWorker
    ELSE LET Less(i, j) ==
                 w[i].load * w[j].capacity < w[j].load * w[i].capacity
             best == CHOOSE i \in 1..Len(w) :
                        /\ \A j \in 1..Len(w) : ~Less(j, i)
                        /\ \A j \in 1..(i - 1) : Less(i, j)
         IN  w[best].id

\* LoadBalancer.update_worker_load
UpdateWorkerLoad(w, worker_id, load) ==
    [i \in 1..Len(w) |->
        IF w[i].id = worker_id THEN [w[i] EXCEPT !.load = load] ELSE w[i]]

register_worker(worker_id, capacity) ==
    /\ workers' = RegisterWorker(workers, worker_id, capacity)
    /\ cLast' = [CLastInit EXCEPT !.op = "register_worker"]
    /\ UNCHANGED <<cache, hits, misses, setLog, lastRead>>
    /\ UNCHANGED notPerf

remove_worker(worker_id) ==
    /\ workers' = RemoveWorker(workers, worker_id)
    /\ cLast' = [CLastInit EXCEPT !.op = "remove_worker"]
    /\ UNCHANGED <<cache, hits, misses, setLog, lastRead>>
    /\ UNCHANGED notPerf

(***************************************************************************)
(* performance.py : PerformanceSystem.optimize_task                        *)
(***************************************************************************)
\* the outcomes of awaiting func(*args, **kwargs): a value, None, or raising
FuncRaises == 3
FuncOutcomes == {None} \cup Vals \cup {FuncRaises}

\* optimize_task returns the cached value without calling func
OptimizeUsesCacheBug(result) == FALSE
OptimizeUsesCache(result) == result # None

optimize_task(task_id, args, outcome, cpu1, cpu2) ==
    LET cache_key == CacheKey(task_id, args)
        result == CacheGet(cache, cache_key)
        worker_id == BestWorker(workers)
        base == [CLastInit EXCEPT !.op = "optimize_task", !.key = cache_key,
                    !.present = cache_key \in KeySet(cache),
                    !.preVal = result,
                    !.dHits = hits' - hits, !.dMisses = misses' - misses]
    IN  /\ UNCHANGED notPerf
        /\ hits + misses < MaxGets
        /\ hits' = HitsAfterGet(cache, cache_key, hits)
        /\ misses' = MissesAfterGet(cache, cache_key, misses)
        /\ lastRead' = cache_key
        /\ IF OptimizeUsesCache(result)
           THEN \* cache hit
                /\ cLast' = [base EXCEPT !.ret = result]
                /\ UNCHANGED <<cache, setLog, workers>>
           ELSE IF BestWorkerRaises(workers)
           THEN \* get_best_worker raises before func is called
                /\ cLast' = [base EXCEPT !.raised = TRUE]
                /\ UNCHANGED <<cache, setLog, workers>>
           ELSE /\ workers' = IF worker_id = NoWorker THEN workers
                              ELSE UpdateWorkerLoad(
                                     UpdateWorkerLoad(workers, worker_id, cpu1),
                                     worker_id, cpu2)
                /\ IF outcome = FuncRaises
                   THEN /\ cLast' = [base EXCEPT !.invoked = TRUE,
                                                 !.raised = TRUE]
                        /\ UNCHANGED <<cache, setLog>>
                   ELSE /\ Len(setLog) < MaxSets
                        /\ cache' = CacheSet(cache, cache_key, outcome)
                        /\ setLog' = Append(setLog, cache_key)
                        /\ cLast' = [base EXCEPT !.invoked = TRUE,
                                                 !.ret = outcome]

(***************************************************************************)
(* scalability.py : ClusterManager                                         *)
(***************************************************************************)
NodeIds == 1..MaxNodes
TaskIds == {1, 2}
Procs == 1..MaxProcs
NoNode == 0
NoResult == 0
Terminal == {"completed", "failed"}

\* the (status, capacity, load) a Node is registered with: available,
\* available with a higher load, at capacity, not active
NodeKinds ==
    { [status |-> "active", capacity |-> 1, load |-> 0],
      [status |-> "active", capacity |-> 2, load |-> 1],
      [status |-> "active", capacity |-> 1, load |-> 1],
      [status |-> "inactive", capacity |-> 1, load |-> 0] }

Statuses == {"pending", "assigned", "completed", "failed"}

\* no entry in self.tasks / no Task object
NoTask == [node |-> NoNode, status |-> "none", result |-> NoResult]

NodeIdSet(ns) == {ns[i].id : i \in 1..Len(ns)}
\* the keys of self.tasks
TaskIdSet(tk) == {t \in TaskIds : tk[t] # NoTask}

\* self.nodes[node.id] = node
RegisterNode(ns, node) ==
    IF node.id \in NodeIdSet(ns)
    THEN [i \in 1..Len(ns) |-> IF ns[i].id = node.id THEN node ELSE ns[i]]
    ELSE Append(ns, node)

\* self.nodes.pop(node_id)
RECURSIVE PopNode(_, _)
PopNode(ns, node_id) ==
    IF ns = <<>> THEN <<>>
    ELSE IF Head(ns).id = node_id THEN Tail(ns)
    ELSE <<Head(ns)>> \o PopNode(Tail(ns), node_id)

\* ClusterManager.get_available_nodes: the places in self.nodes of the
\* nodes that are active and below capacity
AvailableAnyStatus(ns) == {i \in 1..Len(ns) : ns[i].load < ns[i].capacity}
Available(ns) ==
    {i \in 1..Len(ns) : ns[i].status = "active" /\ ns[i].load < ns[i].capacity}

AvailableIds(ns) == {ns[i].id : i \in Available(ns)}

\* min(available_nodes, key=lambda n: n.load): the first node of least load
BestNodeMaxLoad(ns) ==
    LET av == Available(ns)
        best == CHOOSE i \in av :
                   /\ \A j \in av : ns[j].load <= ns[i].load
                   /\ \A j \in av : j < i => ns[j].load < ns[i].load
    IN  ns[best].id
BestNode(ns) ==
    LET av == Available(ns)
        best == CHOOSE i \in av :
                   /\ \A j \in av : ns[i].load <= ns[j].load
                   /\ \A j \in av : j < i => ns[j].load > ns[i].load
    IN  ns[best].id

\* ClusterManager._assign_task, on the Task the id maps to
AssignTask(ns, task) ==
    IF Available(ns) # {}
    THEN [task EXCEPT !.node = BestNode(ns), !.status = "assigned"]
    ELSE task

\* ClusterManager._reassign_node_tasks: the ids it picks
ReassignedNone(tk, node_id) == {}
ReassignedWithPending(tk, node_id) ==
    {t \in TaskIdSet(tk) :
        tk[t].node \in {node_id, NoNode} /\ tk[t].status \notin Terminal}
Reassigned(tk, node_id) ==
    {t \in TaskIdSet(tk) :
        tk[t].node = node_id /\ tk[t].status \notin Terminal}

\* ClusterManager._reassign_node_tasks: self.tasks after it; no assignment
\* changes a node, so the order of the loop is immaterial
ReassignNodeTasks(ns, tk, node_id) ==
    [t \in TaskIds |->
        IF t \in Reassigned(tk, node_id)
        THEN AssignTask(ns, [tk[t] EXCEPT !.node = NoNode, !.status = "pending"])
        ELSE tk[t]]

\* ClusterManager.remove_node: self.nodes and self.tasks after it
RemoveNodeAlways(ns, tk, node_id) ==
    [nodes |-> PopNode(ns, node_id),
     tasks |-> ReassignNodeTasks(PopNode(ns, node_id), tk, node_id)]
RemoveNode(ns, tk, node_id) ==
    IF node_id \in NodeIdSet(ns)
    THEN [nodes |-> PopNode(ns, node_id),
          tasks |-> ReassignNodeTasks(PopNode(ns, node_id), tk, node_id)]
    ELSE [nodes |-> ns, tasks |-> tk]

\* ClusterManager.add_task: self.tasks after adding the Task under task_id
AddTask(ns, tk, task_id, task) ==
    [tk EXCEPT ![task_id] = IF task.node = NoNode THEN AssignTask(ns, task)
                            ELSE task]

KLastInit ==
    [op |-> "init", node |-> NoNode, tid |-> 0, flag |-> FALSE,
     removed |-> {}, moved |-> {}]

\* ClusterManager.__init__ and DistributedProcessor.__init__
ClusterInit ==
    /\ nodes = <<>>
    /\ tasks = [t \in TaskIds |-> NoTask]
    /\ pc = [p \in Procs |-> "idle"]
    /\ ptid = [p \in Procs |-> 0]
    /\ pown = [p \in Procs |-> NoTask]
    /\ pret = [p \in Procs |-> NoResult]
    /\ now = 0
    /\ kLast = KLastInit

\* ClusterManager.register_node
register_node(node_id, kind) ==
    /\ nodes' = RegisterNode(nodes,
                  [id |-> node_id, status |-> kind.status,
                   capacity |-> kind.capacity, load |-> kind.load,
                   last_heartbeat |-> now])
    /\ kLast' = [KLastInit EXCEPT !.op = "register_node"]
    /\ UNCHANGED <<tasks, pc, ptid, pown, pret, now>>
    /\ UNCHANGED notCluster

\* ClusterManager.remove_node
remove_node(node_id) ==
    /\ nodes' = RemoveNode(nodes, tasks, node_id).nodes
    /\ tasks' = RemoveNode(nodes, tasks, node_id).tasks
    /\ kLast' = [KLastInit EXCEPT !.op = "remove_node", !.node = node_id,
                    !.flag = node_id \in NodeIdSet(nodes),
                    !.moved = {t \in TaskIds : tasks'[t] # tasks[t]}]
    /\ UNCHANGED <<pc, ptid, pown, pret, now>>
    /\ UNCHANGED notCluster

\* ClusterManager.update_node_status
update_node_status(node_id, status) ==
    /\ nodes' = [i \in 1..Len(nodes) |->
                    IF nodes[i].id = node_id
                    THEN [nodes[i] EXCEPT !.status = status,
                                          !.last_heartbeat = now]
                    ELSE nodes[i]]
    /\ kLast' = [KLastInit EXCEPT !.op = "update_node_status"]
    /\ UNCHANGED <<tasks, pc, ptid, pown, pret, now>>
    /\ UNCHANGED notCluster

\* A process_task caller polls the Task object it built. While that object
\* is the one self.tasks holds under its id, pown is NoTask; once another
\* Task has been added under the same id the caller's object is out of
\* self.tasks for good and nothing changes it any more: pown keeps its
\* status and result (its node is never read again).
Orphaned(task_id, p) ==
    IF pc[p] = "polling" /\ ptid[p] = task_id /\ pown[p] = NoTask
    THEN [tasks[task_id] EXCEPT !.node = NoNode]
    ELSE pown[p]

\* ClusterManager.add_task, called with a Task built by the caller: with no
\* node it is 'pending', with a node 'pending' or 'assigned'
add_task(task_id, node_id, status) ==
    LET task == [node |-> node_id, status |-> status, result |-> NoResult]
    IN  /\ node_id = NoNode => status = "pending"
        /\ tasks' = AddTask(nodes, tasks, task_id, task)
        /\ pown' = [p \in Procs |-> Orphaned(task_id, p)]
        /\ kLast' = [KLastInit EXCEPT !.op = "add_task", !.tid = task_id,
                        !.flag = node_id # NoNode]
        /\ UNCHANGED <<nodes, pc, ptid, pret, now>>
        /\ UNCHANGED notCluster

\* ClusterManager.update_task_status (result = NoResult: result=None)
update_task_status(task_id, status, result) ==
    /\ IF task_id \in TaskIdSet(tasks)
       THEN tasks' = [tasks EXCEPT ![task_id] =
                        [@ EXCEPT !.status = status,
                                  !.result = IF result # NoResult
                                             THEN result ELSE @]]
       ELSE UNCHANGED tasks
    /\ kLast' = [KLastInit EXCEPT !.op = "update_task_status"]
    /\ UNCHANGED <<nodes, pc, ptid, pown, pret, now>>
    /\ UNCHANGED notCluster

(***************************************************************************)
(* scalability.py : DistributedProcessor                                   *)
(***************************************************************************)
\* process_task up to its first await: builds the Task (its id is the task
\* type and the timestamp), adds it and starts polling
process_task(p, task_id) ==
    LET task == [node |-> NoNode, status |-> "pending", result |-> NoResult]
    IN  /\ pc[p] # "polling"
        /\ tasks' = AddTask(nodes, tasks, task_id, task)
        /\ pc' = [pc EXCEPT ![p] = "polling"]
        /\ ptid' = [ptid EXCEPT ![p] = task_id]
        /\ pown' = [q \in Procs |-> IF q = p THEN NoTask
                                    ELSE Orphaned(task_id, q)]
        /\ pret' = [pret EXCEPT ![p] = NoResult]
        /\ kLast' = [KLastInit EXCEPT !.op = "process_task"]
        /\ UNCHANGED <<nodes, now>>
        /\ UNCHANGED notCluster

\* the Task object caller p polls
Polled(p) == IF pown[p] = NoTask THEN tasks[ptid[p]] ELSE pown[p]

\* the condition that ends process_task's polling loop
WaitOverUnlessPending(status) == status # "pending"
WaitOver(status) == status \in Terminal

\* one turn of process_task's polling loop, and what follows the loop
process_poll(p) ==
    /\ pc[p] = "polling"
    /\ IF WaitOver(Polled(p).status)
       THEN /\ pc' = [pc EXCEPT ![p] =
                        IF Polled(p).status = "failed"
                        THEN "raised" ELSE "returned"]
            /\ pret' = [pret EXCEPT ![p] = Polled(p).result]
            /\ ptid' = [ptid EXCEPT ![p] = 0]
            /\ pown' = [pown EXCEPT ![p] = NoTask]
            /\ kLast' = [KLastInit EXCEPT !.op = "process_done"]
       ELSE \* await asyncio.sleep(0.1)
            UNCHANGED <<pc, pret, ptid, pown, kLast>>
    /\ UNCHANGED <<nodes, tasks, now>>
    /\ UNCHANGED notCluster

\* _monitor_nodes: a node is evicted when its last heartbeat is more than
\* this many seconds old
HeartbeatTimeout == 30

\* the clock advances by about half a timeout at a time
TickSteps == {HeartbeatTimeout \div 2, HeartbeatTimeout \div 2 + 1}

Tick(d) ==
    /\ now + d <= MaxTime
    /\ now' = now + d
    /\ kLast' = [KLastInit EXCEPT !.op = "tick"]
    /\ UNCHANGED <<nodes, tasks, pc, ptid, pown, pret>>
    /\ UNCHANGED notCluster

\* the test of _monitor_nodes on one node
HeartbeatLateOrEqual(node, current_time) ==
    current_time - node.last_heartbeat >= HeartbeatTimeout
HeartbeatLate(node, current_time) ==
    current_time - node.last_heartbeat > HeartbeatTimeout

\* the for loop of _monitor_nodes over list(self.cluster.nodes.items()):
\* snapshot is what is left of that list, st the cluster so far
RECURSIVE MonitorLoop(_, _, _)
MonitorLoop(snapshot, st, current_time) ==
    IF snapshot = <<>> THEN st
    ELSE MonitorLoop(Tail(snapshot),
                     IF HeartbeatLate(Head(snapshot), current_time)
                     THEN RemoveNode(st.nodes, st.tasks, Head(snapshot).id)
                     ELSE st,
                     current_time)

\* one pass of the while loop of _monitor_nodes (up to its sleep)
monitor_pass ==
    LET after == MonitorLoop(nodes, [nodes |-> nodes, tasks |-> tasks], now)
    IN  /\ nodes' = after.nodes
        /\ tasks' = after.tasks
        /\ kLast' = [KLastInit EXCEPT !.op = "monitor",
                        !.removed = NodeIdSet(nodes) \ NodeIdSet(nodes'),
                        !.moved = {t \in TaskIds : tasks'[t] # tasks[t]}]
        /\ UNCHANGED <<pc, ptid, pown, pret, now>>
        /\ UNCHANGED notCluster

(***************************************************************************)
(* testing.py : TestRunner                                                 *)
(***************************************************************************)
TestIds == {1, 2, 3}
Categories == {"a", "b"}
NoCategory == "none"        \* run_suite(category=None)

\* TestCase.dependencies: lists of test ids, of at most MaxDeps entries
DepLists ==
    {d \in UNION {[1..n -> TestIds] : n \in 0..MaxDeps} :
        \A i, j \in 1..Len(d) : i < j => d[i] < d[j]}

\* what the rest of run_test's try block does once the dependencies are
\* checked: test.function() and the coverage calls complete, one of them
\* raises, or wait_for times out
Outcomes == {"ok", "raise", "timeout"}

TestIdSet(ts) == {ts[i].id : i \in 1..Len(ts)}
\* self.tests[test_id]
TestOf(ts, test_id) == ts[CHOOSE i \in 1..Len(ts) : ts[i].id = test_id]

\* TestRunner.register_test: self.tests[test.id] = test
RegisterTest(ts, test) ==
    IF test.id \in TestIdSet(ts)
    THEN [i \in 1..Len(ts) |-> IF ts[i].id = test.id THEN test ELSE ts[i]]
    ELSE Append(ts, test)

\* TestRunner._execute_test: the dependency loop lets the test run
DepsAlwaysOk(test, res) == TRUE
DepsOk(test, res) ==
    \A i \in 1..Len(test.dependencies) : res[test.dependencies[i]] = "passed"

\* TestRunner.run_test: the status of the TestResult it records
RunStatus(test, res, outcome) ==
    IF ~DepsOk(test, res) THEN "failed"
    ELSE IF outcome = "ok" THEN "passed"
    ELSE IF outcome = "timeout" THEN "timeout"
    ELSE "failed"

TLastInit ==
    [op |-> "init", id |-> 0, registered |-> FALSE, raised |-> FALSE,
     preStatus |-> "none", invoked |-> FALSE, outcome |-> "none",
     status |-> "none"]

\* TestRunner.__init__
TestInit ==
    /\ tests = <<>>
    /\ results = [t \in TestIds |-> "none"]
    /\ tLast = TLastInit
    /\ suitePc = "idle"
    /\ suite = <<>>
    /\ suiteTodo = <<>>
    /\ suiteLog = <<>>

\* TestRunner.register_test
register_test(test_id, category, dependencies) ==
    /\ tests' = RegisterTest(tests, [id |-> test_id, category |-> category,
                                     dependencies |-> dependencies])
    /\ tLast' = [TLastInit EXCEPT !.op = "register_test", !.id = test_id]
    /\ UNCHANGED <<results, suitePc, suite, suiteTodo, suiteLog>>
    /\ UNCHANGED notTest

\* TestRunner.run_test: self.results and the record of the call
RunTest(test_id, outcome) ==
    IF test_id \notin TestIdSet(tests)
    THEN \* raise ValueError(f"Test {test_id} not found")
         /\ tLast' = [TLastInit EXCEPT !.op = "run_test", !.id = test_id,
                         !.raised = TRUE]
         /\ UNCHANGED results
    ELSE LET test == TestOf(tests, test_id)
             status == RunStatus(test, results, outcome)
         IN  /\ results' = [results EXCEPT ![test_id] = status]
             /\ tLast' = [TLastInit EXCEPT !.op = "run_test", !.id = test_id,
                             !.registered = TRUE,
                             !.preStatus = results[test_id],
                             !.invoked = DepsOk(test, results),
                             !.outcome = outcome,
                             !.status = status]

run_test(test_id, outcome) ==
    /\ RunTest(test_id, outcome)
    /\ UNCHANGED <<tests, suitePc, suite, suiteTodo, suiteLog>>
    /\ UNCHANGED notTest

\* run_suite: the tests of the category, in registration order
SuiteOf(ts, category) ==
    SelectSeq(ts, LAMBDA t : category = NoCategory \/ t.category = category)

\* TestRunner._sort_by_dependencies: visit(test_id), with sorted_tests in
\* st.order (visited is the set of its entries) and the exception raised,
\* if any, in st.err. A call nested deeper than the suite has tests is on
\* a dependency cycle, where visit recurses without end ("recursion").
RECURSIVE Visit(_, _, _, _), VisitAll(_, _, _, _)
VisitSkipMissing(ts, test_id, st, depth) ==
    IF st.err # "none" \/ test_id \notin TestIdSet(ts) THEN st
    ELSE IF \E i \in 1..Len(st.order) : st.order[i] = test_id THEN st
    ELSE IF depth > Len(ts) THEN [st EXCEPT !.err = "recursion"]
    ELSE LET after == VisitAll(ts, TestOf(ts, test_id).dependencies, st,
                               depth + 1)
         IN  IF after.err # "none" THEN after
             ELSE [after EXCEPT !.order = Append(@, test_id)]
Visit(ts, test_id, st, depth) ==
    IF st.err # "none" THEN st
    ELSE IF \E i \in 1..Len(st.order) : st.order[i] = test_id THEN st
    ELSE IF test_id \notin TestIdSet(ts) THEN [st EXCEPT !.err = "not found"]
    ELSE IF depth > Len(ts) THEN [st EXCEPT !.err = "recursion"]
    ELSE LET after == VisitAll(ts, TestOf(ts, test_id).dependencies, st,
                               depth + 1)
         IN  IF after.err # "none" THEN after
             ELSE [after EXCEPT !.order = Append(@, test_id)]

\* the loop `for dep_id in ...: visit(dep_id)` over what is left of a list
VisitAll(ts, ids, st, depth) ==
    IF ids = <<>> THEN st
    ELSE VisitAll(ts, Tail(ids), Visit(ts, Head(ids), st, depth), depth)

\* TestRunner._sort_by_dependencies
SortRegistrationOrder(ts) ==
    [order |-> [i \in 1..Len(ts) |-> ts[i].id], err |-> "none"]
SortByDependencies(ts) ==
    VisitAll(ts, [i \in 1..Len(ts) |-> ts[i].id],
             [order |-> <<>>, err |-> "none"], 1)

\* run_suite up to its first await: the filter and the sort
run_suite_start(category) ==
    LET sorted == SortByDependencies(SuiteOf(tests, category))
    IN  /\ suitePc \in {"idle", "done", "raised"}
        /\ suite' = SuiteOf(tests, category)
        /\ suiteLog' = <<>>
        /\ IF sorted.err # "none"
           THEN suitePc' = "raised" /\ suiteTodo' = <<>>
           ELSE IF sorted.order = <<>>
           THEN suitePc' = "done" /\ suiteTodo' = <<>>
           ELSE suitePc' = "running" /\ suiteTodo' = sorted.order
        /\ tLast' = [TLastInit EXCEPT !.op = "run_suite"]
        /\ UNCHANGED <<tests, results>>
        /\ UNCHANGED notTest

\* one turn of run_suite's loop: await self.run_test(test_id)
run_suite_step(outcome) ==
    /\ suitePc = "running"
    /\ RunTest(Head(suiteTodo), outcome)
    /\ suiteLog' = Append(suiteLog, Head(suiteTodo))
    /\ suiteTodo' = Tail(suiteTodo)
    /\ suitePc' = IF Tail(suiteTodo) = <<>> THEN "done" ELSE "running"
    /\ UNCHANGED <<tests, suite>>
    /\ UNCHANGED notTest

(***************************************************************************)
(* testing.py : TestingSystem and its three testers                        *)
(***************************************************************************)
Testers == {"integration", "performance", "security"}
SysTestIds == 1..5

\* _register_integration_tests, _register_performance_tests and
\* _register_security_tests: the TestCases of each runner, in registration
\* order; a test's id is its place in that order
SysTests(tester) ==
    IF tester = "integration"
    THEN << [id |-> 1, category |-> "integration", dependencies |-> <<>>],
            [id |-> 2, category |-> "integration", dependencies |-> <<1>>],
            [id |-> 3, category |-> "integration", dependencies |-> <<2>>],
            [id |-> 4, category |-> "integration", dependencies |-> <<3>>],
            [id |-> 5, category |-> "integration", dependencies |-> <<4>>] >>
    ELSE IF tester = "performance"
    THEN << [id |-> 1, category |-> "performance", dependencies |-> <<>>],
            [id |-> 2, category |-> "performance", dependencies |-> <<1>>],
            [id |-> 3, category |-> "performance", dependencies |-> <<2>>] >>
    ELSE << [id |-> 1, category |-> "security", dependencies |-> <<>>],
            [id |-> 2, category |-> "security", dependencies |-> <<1>>],
            [id |-> 3, category |-> "security", dependencies |-> <<>>] >>

\* get_test_summary: all_results, as the <<tester, test id>> of each entry
AllResultsNoSecurity(sr) ==
    {e \in {"integration", "performance"} \X SysTestIds : sr[e[1]][e[2]] # "none"}
AllResults(sr) ==
    {e \in Testers \X SysTestIds : sr[e[1]][e[2]] # "none"}

\* get_test_summary: the number of entries of all_results with a status
CountStatus(sr, status) ==
    Cardinality({e \in AllResults(sr) : sr[e[1]][e[2]] = status})

\* TestingSystem.get_test_summary (without success_rate)
GetTestSummary(sr) ==
    [total |-> Cardinality(AllResults(sr)),
     passed |-> CountStatus(sr, "passed"),
     failed |-> CountStatus(sr, "failed"),
     timeout |-> CountStatus(sr, "timeout")]

\* TestingSystem.__init__
SysInit ==
    /\ sysResults = [t \in Testers |-> [i \in SysTestIds |-> "none"]]
    /\ sysRuns = 0
    /\ sysRan = {}
    /\ sysPc = "none"
    /\ sysTodo = <<>>

\* tester.runner.run_test(test_id): self.results and the executions so far
SysRunTest(tester, test_id, outcome) ==
    IF test_id \notin TestIdSet(SysTests(tester))
    THEN \* raise ValueError(f"Test {test_id} not found")
         UNCHANGED <<sysResults, sysRuns, sysRan>>
    ELSE LET test == TestOf(SysTests(tester), test_id)
             status == RunStatus(test, sysResults[tester], outcome)
         IN  /\ sysResults' = [sysResults EXCEPT ![tester][test_id] = status]
             /\ sysRuns' = sysRuns + 1
             /\ sysRan' = sysRan \cup {<<tester, test_id>>}

sys_run_test(tester, test_id, outcome) ==
    /\ sysRuns < MaxRuns
    /\ SysRunTest(tester, test_id, outcome)
    /\ UNCHANGED <<sysPc, sysTodo>>
    /\ UNCHANGED notSys

\* run_integration_tests, run_performance_tests, run_security_tests:
\* self.runner.run_suite(category) up to its first await
sys_run_suite_start(tester) ==
    LET sorted == SortByDependencies(SuiteOf(SysTests(tester), tester))
    IN  /\ sysPc = "none"
        /\ sorted.err = "none"
        /\ sysPc' = tester
        /\ sysTodo' = sorted.order
        /\ UNCHANGED <<sysResults, sysRuns, sysRan>>
        /\ UNCHANGED notSys

\* one turn of that run_suite's loop
sys_run_suite_step(outcome) ==
    /\ sysPc # "none"
    /\ sysRuns < MaxRuns
    /\ SysRunTest(sysPc, Head(sysTodo), outcome)
    /\ sysTodo' = Tail(sysTodo)
    /\ sysPc' = IF Tail(sysTodo) = <<>> THEN "none" ELSE sysPc
    /\ UNCHANGED notSys

(***************************************************************************)
(* gates.py, gates/gate1.py .. gates/gate4.py : Gate0Manager..Gate4Manager *)
(***************************************************************************)
Gates == 0..4

\* the keys of `steps` in execute_gate, in declaration order
GateSteps(g) ==
    CASE g = 0 -> <<"requirements", "architecture", "risk">>
      [] g = 1 -> <<"documentation", "style", "quality">>
      [] g = 2 -> <<"format_processing", "template", "pattern">>
      [] g = 3 -> <<"version_control", "collaboration", "realtime",
                    "integration">>
      [] g = 4 -> <<"performance", "scalability", "security", "testing",
                    "deployment">>

Reasons == {"r1", "r2"}         \* ValidationResult.reason of an invalid step
Messages == {"e1", "e2"}        \* str(e) of an exception execute() raises
StepValues == {"v1", "v2"}      \* what execute() returns

NoGateResult ==
    [status |-> "none", step |-> "none", reason |-> "none", results |-> <<>>]
\* GateResult(status='failed', step=step_name, reason=...)
GateFailed(step, reason) ==
    [status |-> "failed", step |-> step, reason |-> reason, results |-> <<>>]
\* GateResult(status='passed', results=results)
GatePassed(res) ==
    [status |-> "passed", step |-> "none", reason |-> "none", results |-> res]
\* execute_gate raised the exception of message msg
GateRaised(msg) ==
    [status |-> "raised", step |-> "none", reason |-> msg, results |-> <<>>]

\* `if not validation.valid: return GateResult(status='failed', ...)`
ValidationStopsNever(valid) == FALSE
ValidationStops(valid) == ~valid

\* whether execute_gate awaits the step inside try/except Exception:
\* Gate1Manager to Gate4Manager do, Gate0Manager does not
CatchesExecute(g) == g # 0

\* GateNManager.__init__ (no call under way)
GateInit ==
    /\ gGate = 0
    /\ gPc = "idle"
    /\ gIdx = 0
    /\ gResults = <<>>
    /\ gValidated = <<>>
    /\ gInvoked = <<>>
    /\ gRet = NoGateResult

\* execute_gate up to the first await
gate_start(g) ==
    /\ gPc \in {"idle", "done"}
    /\ gGate' = g
    /\ gPc' = "validate"
    /\ gIdx' = 1
    /\ gResults' = <<>>
    /\ gValidated' = <<>>
    /\ gInvoked' = <<>>
    /\ gRet' = NoGateResult
    /\ UNCHANGED notGate

\* validation = await component.validate(), and the test of validation.valid
gate_validate(valid, reason) ==
    LET step_name == GateSteps(gGate)[gIdx]
    IN  /\ gPc = "validate"
        /\ gValidated' = Append(gValidated, <<step_name, valid>>)
        /\ IF ValidationStops(valid)
           THEN /\ gRet' = GateFailed(step_name, reason)
                /\ gPc' = "done"
           ELSE /\ gPc' = "execute"
                /\ UNCHANGED gRet
        /\ UNCHANGED <<gGate, gIdx, gResults, gInvoked>>
        /\ UNCHANGED notGate

\* results[step_name] = await component.execute(...), the except clause
\* where there is one, and the end of the loop
gate_execute(raises, msg, value) ==
    LET step_name == GateSteps(gGate)[gIdx]
        res == Append(gResults, <<step_name, value>>)
    IN  /\ gPc = "execute"
        /\ gInvoked' = Append(gInvoked,
                            <<step_name, raises, IF raises THEN msg ELSE "none">>)
        /\ IF raises
           THEN /\ gRet' = IF CatchesExecute(gGate)
                           THEN GateFailed(step_name, msg)
                           ELSE GateRaised(msg)
                /\ gPc' = "done"
                /\ UNCHANGED <<gIdx, gResults>>
           ELSE /\ gResults' = res
                /\ IF gIdx = Len(GateSteps(gGate))
                   THEN /\ gRet' = GatePassed(res)
                        /\ gPc' = "done"
                        /\ UNCHANGED gIdx
                   ELSE /\ gIdx' = gIdx + 1
                        /\ gPc' = "validate"
                        /\ UNCHANGED gRet
        /\ UNCHANGED <<gGate, gValidated>>
        /\ UNCHANGED notGate

(***************************************************************************)
(* realtime.py : DocumentPreview                                           *)
(***************************************************************************)
\* the callbacks, named by what one does when it is called: returns, raises
\* an Exception, or calls remove_observer on itself and returns
Observers == {"plain", "raising", "unsubscribing"}
Contents == {"a", "b"}

\* list.remove(callback): drops the first occurrence
RECURSIVE RemoveFirst(_, _)
RemoveFirst(obs, o) ==
    IF obs = <<>> THEN <<>>
    ELSE IF Head(obs) = o THEN Tail(obs)
    ELSE <<Head(obs)>> \o RemoveFirst(Tail(obs), o)

\* DocumentPreview.remove_observer
RemoveObserver(obs, o) ==
    IF \E i \in 1..Len(obs) : obs[i] = o THEN RemoveFirst(obs, o) ELSE obs

\* _notify_observers: whether an observer's exception ends the loop (the
\* except clause logs it and the loop goes on)
RaiseEndsLoopAlways(kind) == kind = "raising"
RaiseEndsLoop(kind) == FALSE

\* _notify_observers: `for observer in self.observers` reads the list by
\* position, so that a removal made by a callback shifts the entries the
\* loop has not reached yet. i is the next position, st.obs the list and
\* st.calls the calls made so far.
RECURSIVE NotifyObservers(_, _, _, _)
NotifyObservers(st, i, content, version) ==
    IF i > Len(st.obs) THEN st
    ELSE LET o == st.obs[i]
             called == [obs |-> IF o = "unsubscribing"
                                THEN RemoveObserver(st.obs, o) ELSE st.obs,
                        calls |-> Append(st.calls, <<o, content, version>>)]
         IN  IF RaiseEndsLoop(o) THEN called
             ELSE NotifyObservers(called, i + 1, content, version)

PvLastInit == [op |-> "init", obs |-> <<>>]

\* DocumentPreview.__init__
PreviewInit ==
    /\ pvContent = ""
    /\ pvVersion = 0
    /\ pvObservers = <<>>
    /\ pvUpdates = 0
    /\ pvCalls = <<>>
    /\ pvLast = PvLastInit

\* DocumentPreview.update_content
update_content(content) ==
    LET after == NotifyObservers([obs |-> pvObservers, calls |-> <<>>], 1,
                                 content, pvVersion + 1)
    IN  /\ pvVersion < MaxVersion
        /\ pvContent' = content
        /\ pvVersion' = pvVersion + 1
        /\ pvObservers' = after.obs
        /\ pvCalls' = after.calls
        /\ pvUpdates' = pvUpdates + 1
        /\ pvLast' = [op |-> "update_content", obs |-> pvObservers]
        /\ UNCHANGED notPreview

\* DocumentPreview.add_observer
add_observer(callback) ==
    /\ Len(pvObservers) < MaxObservers
    /\ pvObservers' = Append(pvObservers, callback)
    /\ pvLast' = [op |-> "add_observer", obs |-> pvObservers]
    /\ UNCHANGED <<pvContent, pvVersion, pvUpdates, pvCalls>>
    /\ UNCHANGED notPreview

\* DocumentPreview.remove_observer
remove_observer(callback) ==
    /\ pvObservers' = RemoveObserver(pvObservers, callback)
    /\ pvLast' = [op |-> "remove_observer", obs |-> pvObservers]
    /\ UNCHANGED <<pvContent, pvVersion, pvUpdates, pvCalls>>
    /\ UNCHANGED notPreview

(***************************************************************************)
(* realtime.py : UpdateQueue and the RealtimeSystem that owns it           *)
(***************************************************************************)
EventTypes == {"content_update", "preview_request", "other"}
\* an UpdateEvent: the number of the push that queued it, and its type
NoEvent == [id |-> 0, type |-> "none"]

\* asyncio.Queue.get: the event it returns and the queue it leaves
QueueGetNewest(q) == [event |-> q[Len(q)], rest |-> SubSeq(q, 1, Len(q) - 1)]
QueueGet(q) == [event |-> Head(q), rest |-> Tail(q)]

\* `await processor(event)` inside try/except Exception: _handle_content_update
\* and _handle_preview_request ("default") catch what they raise themselves
HandleOutcome(proc, raises) ==
    IF proc = "custom" /\ raises THEN "failed" ELSE "processed"

\* UpdateQueue.__init__ and the two register_processor calls of
\* RealtimeSystem.__init__; process_events is waiting for the first event
QueueInit ==
    /\ qQueue = <<>>
    /\ qProcessors = [t \in EventTypes |->
                        IF t = "other" THEN "none" ELSE "default"]
    /\ qPc = "waiting"
    /\ qEvent = NoEvent
    /\ qProc = "none"
    /\ qPushed = <<>>
    /\ qHandled = <<>>

\* UpdateQueue.register_processor, with a handler of the caller's
register_processor(event_type) ==
    /\ qProcessors' = [qProcessors EXCEPT ![event_type] = "custom"]
    /\ UNCHANGED <<qQueue, qPc, qEvent, qProc, qPushed, qHandled>>
    /\ UNCHANGED notQueue

\* UpdateQueue.push_event (update_document and request_preview call it)
push_event(event_type) ==
    LET event == [id |-> Len(qPushed) + 1, type |-> event_type]
    IN  /\ Len(qPushed) < MaxEvents
        /\ qQueue' = Append(qQueue, event)
        /\ qPushed' = Append(qPushed, event)
        /\ UNCHANGED <<qProcessors, qPc, qEvent, qProc, qHandled>>
        /\ UNCHANGED notQueue

\* process_events: queue.get() returns, the processor is looked up; with
\* none, the event is logged and dropped and the loop goes round
process_get ==
    LET got == QueueGet(qQueue)
    IN  /\ qPc = "waiting"
        /\ qQueue # <<>>
        /\ qQueue' = got.rest
        /\ IF qProcessors[got.event.type] # "none"
           THEN /\ qPc' = "handling"
                /\ qEvent' = got.event
                /\ qProc' = qProcessors[got.event.type]
                /\ UNCHANGED qHandled
           ELSE /\ qHandled' = Append(qHandled, <<got.event.id, "dropped">>)
                /\ UNCHANGED <<qPc, qEvent, qProc>>
        /\ UNCHANGED <<qProcessors, qPushed>>
        /\ UNCHANGED notQueue

\* process_events: the awaited processor returns or raises; task_done
process_handle(raises) ==
    /\ qPc = "handling"
    /\ qHandled' = Append(qHandled, <<qEvent.id, HandleOutcome(qProc, raises)>>)
    /\ qPc' = "waiting"
    /\ qEvent' = NoEvent
    /\ qProc' = "none"
    /\ UNCHANGED <<qQueue, qProcessors, qPushed>>
    /\ UNCHANGED notQueue

(***************************************************************************)
(* enhancement_manager.py : EnhancementManager                             *)
(***************************************************************************)
\* ids are "feature-<second>" and "release-<second>": the second of creation
FeatureIds == {1, 2}
ReleaseIds == {1}

\* class Status, in declaration order
StatusOrder ==
    <<"proposed", "approved", "in_progress", "testing", "completed", "released">>
FeatureStatuses == {StatusOrder[i] : i \in 1..Len(StatusOrder)}
StatusRank(status) == CHOOSE i \in 1..Len(StatusOrder) : StatusOrder[i] = status

\* a Feature: its status and whether each timestamp is set (not None)
NoFeature ==
    [status |-> "none", started_at |-> FALSE, completed_at |-> FALSE,
     released_at |-> FALSE]
NoRelease == [features |-> {}, status |-> "none", released_at |-> FALSE]

FeatureIdSet(fs) == {f \in FeatureIds : fs[f] # NoFeature}

\* update_feature on the Feature itself; status "none" is status=None
UpdateFeature(feature, status) ==
    IF status = "none" THEN feature
    ELSE [feature EXCEPT
            !.status = status,
            !.started_at = @ \/ status = "in_progress",
            !.completed_at = @ \/ status = "completed",
            !.released_at = @ \/ status = "released"]

\* update_release: the features its loop passes to update_feature
CascadeNone(release) == {}
Cascade(release) == release.features

ELastInit == [op |-> "init", id |-> 0, status |-> "none", raised |-> FALSE]

\* EnhancementManager.__init__
EnhInit ==
    /\ features = [f \in FeatureIds |-> NoFeature]
    /\ releases = [r \in ReleaseIds |-> NoRelease]
    /\ eLast = ELastInit

\* EnhancementManager.create_feature, at second feature_id
create_feature(feature_id) ==
    /\ features' = [features EXCEPT ![feature_id] =
                      [NoFeature EXCEPT !.status = "proposed"]]
    /\ eLast' = [ELastInit EXCEPT !.op = "create_feature", !.id = feature_id]
    /\ UNCHANGED releases
    /\ UNCHANGED notEnh

\* EnhancementManager.create_release, at second release_id
create_release(release_id, bundle) ==
    /\ IF bundle \subseteq FeatureIdSet(features)
       THEN /\ releases' = [releases EXCEPT ![release_id] =
                              [features |-> bundle, status |-> "planned",
                               released_at |-> FALSE]]
            /\ eLast' = [ELastInit EXCEPT !.op = "create_release",
                                          !.id = release_id]
       ELSE \* raise ValueError(f"Feature not found: {feature_id}")
            /\ eLast' = [ELastInit EXCEPT !.op = "create_release",
                                          !.id = release_id, !.raised = TRUE]
            /\ UNCHANGED releases
    /\ UNCHANGED features
    /\ UNCHANGED notEnh

\* EnhancementManager.update_feature
update_feature(feature_id, status) ==
    /\ IF feature_id \in FeatureIdSet(features)
       THEN /\ features' = [features EXCEPT ![feature_id] =
                              UpdateFeature(@, status)]
            /\ eLast' = [ELastInit EXCEPT !.op = "update_feature",
                            !.id = feature_id, !.status = status]
       ELSE \* raise ValueError(f"Feature not found: {feature_id}")
            /\ eLast' = [ELastInit EXCEPT !.op = "update_feature",
                            !.id = feature_id, !.status = status,
                            !.raised = TRUE]
            /\ UNCHANGED features
    /\ UNCHANGED releases
    /\ UNCHANGED notEnh

\* EnhancementManager.update_release; every bundled feature exists, since
\* create_release checked it and no feature is ever deleted
update_release(release_id, status) ==
    /\ IF release_id \in {r \in ReleaseIds : releases[r] # NoRelease}
       THEN /\ releases' = [releases EXCEPT ![release_id] =
                  IF status = "none" THEN @
                  ELSE [@ EXCEPT !.status = status,
                                 !.released_at = @ \/ status = "released"]]
            /\ features' = [f \in FeatureIds |->
                  IF status = "released" /\ f \in Cascade(releases[release_id])
                  THEN UpdateFeature(features[f], "released")
                  ELSE features[f]]
            /\ eLast' = [ELastInit EXCEPT !.op = "update_release",
                            !.id = release_id, !.status = status]
       ELSE \* raise ValueError(f"Release not found: {release_id}")
            /\ eLast' = [ELastInit EXCEPT !.op = "update_release",
                            !.id = release_id, !.status = status,
                            !.raised = TRUE]
            /\ UNCHANGED <<features, releases>>
    /\ UNCHANGED notEnh

(***************************************************************************)
(* support_manager.py : SupportManager                                     *)
(***************************************************************************)
\* ids are "team-<second>": the second of creation
TeamIds == {1, 2}
\* the SupportCase objects, numbered in creation order
CaseIds == {1, 2, 3}
SupportTypes == {"technical", "customer"}
Languages == {"en", "fr"}
\* the languages argument of create_team, all supported in the region
LanguageSets == {{"en"}, {"en", "fr"}}
NoTeam == 0

NoCase == [team_id |-> NoTeam, type |-> "none", language |-> "none",
           status |-> "none"]

SupTeamIdSet(ts) == {ts[i].id : i \in 1..Len(ts)}

\* self.teams[profile.id] = profile
PutTeam(ts, profile) ==
    IF profile.id \in SupTeamIdSet(ts)
    THEN [i \in 1..Len(ts) |-> IF ts[i].id = profile.id THEN profile ELSE ts[i]]
    ELSE Append(ts, profile)

\* _find_team: available_teams, as places in self.teams
AvailableTeamsAnyLoad(ts, cs, type, language) ==
    {i \in 1..Len(ts) :
        /\ ts[i].type = type
        /\ language \in ts[i].languages
        /\ ts[i].status = "active"}
AvailableTeamsOpenLoad(ts, cs, type, language) ==
    {i \in 1..Len(ts) :
        /\ ts[i].type = type
        /\ language \in ts[i].languages
        /\ ts[i].status = "active"
        /\ Len(SelectSeq(cs[ts[i].id], LAMBDA c : supCase[c].status = "open"))
              < ts[i].concurrent_cases}
AvailableTeams(ts, cs, type, language) ==
    {i \in 1..Len(ts) :
        /\ ts[i].type = type
        /\ language \in ts[i].languages
        /\ ts[i].status = "active"
        /\ Len(cs[ts[i].id]) < ts[i].concurrent_cases}

\* SupportManager._find_team: min() keeps the first team of lowest load
FindTeam(ts, cs, type, language) ==
    LET av == AvailableTeams(ts, cs, type, language)
        load(i) == Len(cs[ts[i].id])
    IN  IF av = {} THEN NoTeam
        ELSE ts[CHOOSE i \in av :
                   /\ \A j \in av : load(i) <= load(j)
                   /\ \A j \in av : j < i => load(j) > load(i)].id

SupLastInit ==
    [op |-> "init", type |-> "none", language |-> "none", case |-> 0,
     raised |-> FALSE]

\* SupportManager.__init__
SupInit ==
    /\ supTeams = <<>>
    /\ supCases = [t \in TeamIds |-> <<>>]
    /\ supCase = [c \in CaseIds |-> NoCase]
    /\ supQueue = {}
    /\ supTasks = {}
    /\ supLast = SupLastInit

\* SupportManager.create_team, at second team_id
create_team(team_id, type, languages) ==
    /\ supTeams' = PutTeam(supTeams,
                     [id |-> team_id, type |-> type, languages |-> languages,
                      status |-> "active",
                      concurrent_cases |-> ConcurrentCases])
    /\ supLast' = [SupLastInit EXCEPT !.op = "create_team"]
    /\ UNCHANGED <<supCases, supCase, supQueue, supTasks>>
    /\ UNCHANGED notSup

\* SupportManager._start_shift and _end_shift, run by the scheduler
set_shift(team_id, status) ==
    /\ team_id \in SupTeamIdSet(supTeams)
    /\ supTeams' = [i \in 1..Len(supTeams) |->
                      IF supTeams[i].id = team_id
                      THEN [supTeams[i] EXCEPT !.status = status]
                      ELSE supTeams[i]]
    /\ supLast' = [SupLastInit EXCEPT !.op = "set_shift"]
    /\ UNCHANGED <<supCases, supCase, supQueue, supTasks>>
    /\ UNCHANGED notSup

\* SupportManager.create_case; the new case is the next SupportCase object
create_case(type, language) ==
    LET team_id == FindTeam(supTeams, supCases, type, language)
        c == Cardinality({x \in CaseIds : supCase[x] # NoCase}) + 1
        base == [SupLastInit EXCEPT !.op = "create_case", !.type = type,
                                    !.language = language]
    IN  /\ c \in CaseIds
        /\ IF team_id = NoTeam
           THEN \* raise ValueError("No available team ...")
                /\ supLast' = [base EXCEPT !.raised = TRUE]
                /\ UNCHANGED <<supCases, supCase, supQueue>>
           ELSE /\ supCase' = [supCase EXCEPT ![c] =
                                 [team_id |-> team_id, type |-> type,
                                  language |-> language, status |-> "open"]]
                /\ supCases' = [supCases EXCEPT ![team_id] = Append(@, c)]
                /\ supQueue' = supQueue \cup {c}
                /\ supLast' = [base EXCEPT !.case = c]
        /\ UNCHANGED <<supTeams, supTasks>>
        /\ UNCHANGED notSup

\* SupportManager._process_cases: drains the queue; a case that is open and
\* whose team is not active gets a _find_and_reassign task
process_cases ==
    /\ supQueue # {}
    /\ supTasks' = supTasks \cup
          {c \in supQueue :
              /\ supCase[c].status = "open"
              /\ \A i \in 1..Len(supTeams) :
                    supTeams[i].id = supCase[c].team_id
                       => supTeams[i].status # "active"}
    /\ supQueue' = {}
    /\ supLast' = [SupLastInit EXCEPT !.op = "process_cases"]
    /\ UNCHANGED <<supTeams, supCases, supCase>>
    /\ UNCHANGED notSup

\* SupportManager._find_and_reassign, run as a task
find_and_reassign(c) ==
    LET new_team == FindTeam(supTeams, supCases, supCase[c].type,
                             supCase[c].language)
    IN  /\ c \in supTasks
        /\ supTasks' = supTasks \ {c}
        /\ IF new_team # NoTeam
           THEN /\ supCase' = [supCase EXCEPT ![c].team_id = new_team]
                /\ supCases' = [supCases EXCEPT ![new_team] = Append(@, c)]
                /\ supQueue' = supQueue \cup {c}
           ELSE UNCHANGED <<supCase, supCases, supQueue>>
        /\ supLast' = [SupLastInit EXCEPT !.op = "find_and_reassign"]
        /\ UNCHANGED supTeams
        /\ UNCHANGED notSup

\* the caller sets the status of a SupportCase that create_case returned
close_case(c) ==
    /\ supCase[c].status = "open"
    /\ supCase' = [supCase EXCEPT ![c].status = "closed"]
    /\ supLast' = [SupLastInit EXCEPT !.op = "close_case"]
    /\ UNCHANGED <<supTeams, supCases, supQueue, supTasks>>
    /\ UNCHANGED notSup

(***************************************************************************)
(* monitoring_manager.py : MonitoringManager                               *)
(***************************************************************************)
\* the metrics of metrics.yaml, named by the keys of their threshold
MetricIds == {"both", "warning_only", "critical_only", "no_threshold",
              "inverted"}
UnknownMetric == "unknown"
MetricValues == 0..3
\* ids are "alert-<second>"
AlertSeconds == {1, 2}
NoLevel == -1       \* the key is not in metric.threshold

\* Metric.threshold (no_threshold: None or an empty dict)
Threshold(m) ==
    CASE m = "both" -> [warning |-> 1, critical |-> 2]
      [] m = "warning_only" -> [warning |-> 2, critical |-> NoLevel]
      [] m = "critical_only" -> [warning |-> NoLevel, critical |-> 2]
      [] m = "inverted" -> [warning |-> 3, critical |-> 1]
      [] OTHER -> [warning |-> NoLevel, critical |-> NoLevel]

\* _check_thresholds: the severity of the alert it creates ("none": none)
SeverityWarningFirst(th, value) ==
    IF th.warning # NoLevel /\ value >= th.warning THEN "warning"
    ELSE IF th.critical # NoLevel /\ value >= th.critical THEN "critical"
    ELSE "none"
Severity(th, value) ==
    IF th.critical # NoLevel /\ value >= th.critical THEN "critical"
    ELSE IF th.warning # NoLevel /\ value >= th.warning THEN "warning"
    ELSE "none"

NoAlert == [metric_id |-> "none", severity |-> "none", current_value |-> 0,
            status |-> "none"]

\* the points recorded so far for the metrics ms
RECURSIVE PointCount(_)
PointCount(ms) ==
    IF ms = {} THEN 0
    ELSE LET m == CHOOSE x \in ms : TRUE
         IN  Len(monData[m]) + PointCount(ms \ {m})

MonLastInit ==
    [op |-> "init", metric_id |-> "none", value |-> 0, raised |-> FALSE]

\* MonitoringManager.__init__
MonInit ==
    /\ monData = [m \in MetricIds |-> <<>>]
    /\ monAlerts = [a \in AlertSeconds |-> NoAlert]
    /\ monCreated = <<>>
    /\ monNow = 1
    /\ monLast = MonLastInit

\* MonitoringManager.record_metric, with _check_thresholds and create_alert
record_metric(metric_id, value) ==
    LET base == [MonLastInit EXCEPT !.op = "record_metric",
                                    !.metric_id = metric_id, !.value = value]
    IN  /\ PointCount(MetricIds) < MaxPoints
        /\ IF metric_id \notin MetricIds
           THEN \* raise ValueError(f"Metric not found: {metric_id}")
                /\ monLast' = [base EXCEPT !.raised = TRUE]
                /\ UNCHANGED <<monData, monAlerts, monCreated>>
           ELSE LET severity == Severity(Threshold(metric_id), value)
                    alert == [metric_id |-> metric_id, severity |-> severity,
                              current_value |-> value, status |-> "active"]
                IN  /\ monData' = [monData EXCEPT ![metric_id] = Append(@, value)]
                    /\ monLast' = base
                    /\ IF severity # "none"
                       THEN /\ monAlerts' = [monAlerts EXCEPT ![monNow] = alert]
                            /\ monCreated' = Append(monCreated, alert)
                       ELSE UNCHANGED <<monAlerts, monCreated>>
        /\ UNCHANGED monNow
        /\ UNCHANGED notMon

\* MonitoringManager.resolve_alert
resolve_alert(alert_id) ==
    /\ IF monAlerts[alert_id] = NoAlert
       THEN \* raise ValueError(f"Alert not found: {alert_id}")
            /\ monLast' = [MonLastInit EXCEPT !.op = "resolve_alert",
                                              !.raised = TRUE]
            /\ UNCHANGED monAlerts
       ELSE /\ monAlerts' = [monAlerts EXCEPT ![alert_id].status = "resolved"]
            /\ monLast' = [MonLastInit EXCEPT !.op = "resolve_alert"]
    /\ UNCHANGED <<monData, monCreated, monNow>>
    /\ UNCHANGED notMon

\* the clock passes to the next second
mon_tick ==
    /\ monNow + 1 \in AlertSeconds
    /\ monNow' = monNow + 1
    /\ monLast' = [MonLastInit EXCEPT !.op = "tick"]
    /\ UNCHANGED <<monData, monAlerts, monCreated>>
    /\ UNCHANGED notMon

(***************************************************************************)
(* automation_systems.py : AutomationSystems                               *)
(***************************************************************************)
TaskNames == {"backup", "report", "migrate"}
AutoSeconds == {1, 2}

\* f"task-{datetime.now().strftime('%Y%m%d-%H%M%S')}"; count is the number
\* of tasks created before
TaskIdFresh(second, count) == <<"task", second, count>>
TaskId(second, count) == <<"task", second>>

\* dict[key] = value and open(path, 'w') on a map
Store(map, key, value) == (key :> value) @@ map

AutoLastInit == [op |-> "init", id |-> <<>>, raised |-> FALSE, created |-> <<>>]

\* AutomationSystems.__init__, with an empty tasks directory
AutoInit ==
    /\ autoTasks = <<>>
    /\ autoDisk = <<>>
    /\ autoJobs = <<>>
    /\ autoNow = 1
    /\ autoLast = AutoLastInit
    /\ autoExecs = <<>>
    /\ autoThread = "stopped"

\* AutomationSystems.create_task; raises: _schedule_task fails (a schedule
\* the scheduler does not take), which is after the task is stored and saved
auto_create_task(name, raises) ==
    LET id == TaskId(autoNow, Len(autoLast.created))
        task == [id |-> id, name |-> name, status |-> "created",
                 created_at |-> autoNow, next_run |-> FALSE]
    IN  /\ Len(autoLast.created) < MaxCreates
        /\ autoDisk' = Store(autoDisk, id, task)
        /\ IF raises
           THEN /\ autoTasks' = Store(autoTasks, id, task)
                /\ UNCHANGED autoJobs
           ELSE /\ autoTasks' = Store(autoTasks, id, [task EXCEPT !.next_run = TRUE])
                /\ autoJobs' = Append(autoJobs, id)
        /\ autoLast' = [op |-> "create_task", id |-> id, raised |-> raises,
                        created |-> Append(autoLast.created, <<autoNow, name>>)]
        /\ UNCHANGED <<autoNow, autoExecs, autoThread>>
        /\ UNCHANGED notAuto

\* the clock passes to the next second
auto_tick ==
    /\ autoNow + 1 \in AutoSeconds
    /\ autoNow' = autoNow + 1
    /\ autoLast' = [autoLast EXCEPT !.op = "tick", !.id = <<>>, !.raised = FALSE]
    /\ UNCHANGED <<autoTasks, autoDisk, autoJobs, autoExecs, autoThread>>
    /\ UNCHANGED notAuto

\* the schedule_config keys and the actions create_task is given for the
\* tasks of each name ("migrate" is a ScheduleType.ONCE task, the others are
\* HOURLY); "no_type" is an action dict without a "type" key
ScheduleConfig(name) == IF name = "migrate" THEN {"datetime"} ELSE {"minute"}
TaskActions(name) ==
    IF name = "backup" THEN <<"backup", "cleanup">> ELSE <<"validate", "no_type">>

\* _calculate_next_run(**task.schedule_config) raises TypeError for a key
\* that is not one of its parameters
CalculateNextRunRaises(config) == config \ {"day", "hour", "minute", "cron"} # {}

\* the for loop of _execute_task: action["type"] raises KeyError
ActionsRaiseNever(actions) == FALSE
ActionsRaise(actions) == \E i \in 1..Len(actions) : actions[i] = "no_type"

\* the number of TaskExecutions kept
RECURSIVE ExecCount(_)
ExecCount(ids) ==
    IF ids = {} THEN 0
    ELSE LET id == CHOOSE x \in ids : TRUE
         IN  Len(autoExecs[id]) + ExecCount(ids \ {id})

\* AutomationSystems.start
auto_start ==
    /\ autoThread = "stopped"
    /\ autoThread' = "running"
    /\ autoLast' = [autoLast EXCEPT !.op = "start", !.id = <<>>, !.raised = FALSE]
    /\ UNCHANGED <<autoTasks, autoDisk, autoJobs, autoNow, autoExecs>>
    /\ UNCHANGED notAuto

\* _run_scheduler: run_pending runs job j, which is _execute_task(task_id);
\* an exception that leaves _execute_task leaves run_pending and the loop
auto_execute_task(j) ==
    LET task_id == autoJobs[j]
        task == autoTasks[task_id]
        failed == ActionsRaise(TaskActions(task.name))
        propagates == CalculateNextRunRaises(ScheduleConfig(task.name))
        execution == [task_id |-> task_id,
                      status |-> IF failed THEN "failed" ELSE "completed",
                      logs |-> IF failed THEN <<"Error">>
                               ELSE [i \in 1..Len(TaskActions(task.name)) |-> "Executed"],
                      end_time |-> TRUE]
        old == IF task_id \in DOMAIN autoExecs THEN autoExecs[task_id] ELSE <<>>
    IN  /\ autoThread = "running"
        /\ j \in 1..Len(autoJobs)
        /\ ExecCount(DOMAIN autoExecs) < MaxExecs
        /\ autoExecs' = Store(autoExecs, task_id, Append(old, execution))
        /\ IF propagates
           THEN \* task.last_run is set; the saves are not reached
                /\ autoThread' = "dead"
                /\ UNCHANGED <<autoTasks, autoDisk>>
           ELSE /\ autoTasks' = [autoTasks EXCEPT ![task_id].next_run = TRUE]
                /\ autoDisk' = Store(autoDisk, task_id, autoTasks'[task_id])
                /\ UNCHANGED autoThread
        /\ autoLast' = [autoLast EXCEPT !.op = "execute", !.id = task_id,
                                        !.raised = propagates]
        /\ UNCHANGED <<autoJobs, autoNow>>
        /\ UNCHANGED notAuto

(***************************************************************************)
(* integration_manager.py : IntegrationManager                             *)
(***************************************************************************)
\* the default cases, and "smoke", a case loaded from test_cases/smoke.json
IntegrationCases == {"crm_integration", "demo_environment",
                     "collateral_system", "marketing_system", "smoke"}
UnknownCase == "unknown"

\* TestCase.prerequisites
CasePrerequisites(c) ==
    CASE c = "crm_integration" -> <<"hubspot_api_key">>
      [] c = "demo_environment" -> <<"docker">>
      [] OTHER -> <<>>

\* the "action" of each of TestCase.steps
CaseSteps(c) ==
    CASE c = "crm_integration" ->
             <<"initialize_crm", "create_contact", "create_deal",
               "validate_pipeline">>
      [] c = "demo_environment" ->
             <<"create_instance", "validate_instance", "test_features">>
      [] c = "collateral_system" ->
             <<"create_template", "generate_content", "export_content">>
      [] c = "marketing_system" ->
             <<"create_content", "create_campaign", "track_metrics">>
      [] OTHER -> <<"create_instance", "track_metrics">>

\* _check_prerequisites raises ValueError
PrerequisiteMissing(c, key, docker) ==
    \E i \in 1..Len(CasePrerequisites(c)) :
        \/ CasePrerequisites(c)[i] = "hubspot_api_key" /\ ~key
        \/ CasePrerequisites(c)[i] = "docker" /\ ~docker

\* _execute_step raises ValueError(f"Unknown action: {action}")
ExecuteStepRaises(action) ==
    action \notin {"initialize_crm", "create_instance", "create_content",
                   "track_metrics"}

\* the "created" entry of the step's result (absent: FALSE)
StepCreated(action) == action \in {"create_instance", "create_content"}

\* the steps of c the loop stores in output / reports in errors, in order
RECURSIVE StepsWhere(_, _)
StepsWhere(steps, raised) ==
    IF steps = <<>> THEN <<>>
    ELSE IF ExecuteStepRaises(Head(steps)) = raised
         THEN <<Head(steps)>> \o StepsWhere(Tail(steps), raised)
         ELSE StepsWhere(Tail(steps), raised)

\* _calculate_metrics divides by len(output)
CalculateMetricsNeverRaises(output) == FALSE
CalculateMetricsRaises(output) == Len(output) = 0

\* _calculate_metrics: the numerators of success_rate and error_rate, over
\* len(output)
CalculateMetrics(output) ==
    LET created == {i \in 1..Len(output) : StepCreated(output[i])}
    IN  [success |-> Cardinality(created),
         error |-> Len(output) - Cardinality(created),
         of |-> Len(output)]

RECURSIVE ResultCount(_)
ResultCount(cs) ==
    IF cs = {} THEN 0
    ELSE LET c == CHOOSE x \in cs : TRUE
         IN  Len(imResults[c]) + ResultCount(cs \ {c})

ImLastInit == [op |-> "init", case |-> "none", key |-> FALSE, docker |-> FALSE,
               raised |-> "none"]

\* IntegrationManager.__init__
ImInit ==
    /\ imStatus = [c \in IntegrationCases |-> "pending"]
    /\ imResults = [c \in IntegrationCases |-> <<>>]
    /\ imLast = ImLastInit

\* IntegrationManager.run_test_case; key: HUBSPOT_API_KEY is set,
\* docker: docker_client.ping() answers
run_test_case(case_id, key, docker) ==
    LET base == [op |-> "run_test_case", case |-> case_id, key |-> key,
                 docker |-> docker, raised |-> "none"]
    IN  /\ ResultCount(IntegrationCases) < MaxCaseRuns
        /\ IF case_id \notin IntegrationCases
           THEN /\ imLast' = [base EXCEPT !.raised = "ValueError"]
                /\ UNCHANGED <<imStatus, imResults>>
           ELSE LET missing == PrerequisiteMissing(case_id, key, docker)
                    output == IF missing THEN <<>>
                              ELSE StepsWhere(CaseSteps(case_id), FALSE)
                    errors == IF missing THEN <<"Test execution failed">>
                              ELSE StepsWhere(CaseSteps(case_id), TRUE)
                    status == IF missing THEN "error"
                              ELSE IF errors = <<>> THEN "passed" ELSE "failed"
                    result == [test_id |-> case_id, status |-> status,
                               output |-> output, errors |-> errors,
                               metrics |-> CalculateMetrics(output)]
                IN  /\ imStatus' = [imStatus EXCEPT ![case_id] = status]
                    /\ IF CalculateMetricsRaises(output)
                       THEN /\ imLast' = [base EXCEPT !.raised = "ZeroDivisionError"]
                            /\ UNCHANGED imResults
                       ELSE /\ imLast' = base
                            /\ imResults' = [imResults EXCEPT ![case_id] =
                                                 Append(@, result)]
        /\ UNCHANGED notIm

(***************************************************************************)
(* crm_validation.py : CRMValidator                                        *)
(***************************************************************************)
ApiKeys == {"", "key"}          \* crm.config.api_key ("": missing)
PipelineIds == {"", "pipeline"} \* crm.config.pipeline_id
\* what the HubSpot client does for one of the other four checks
ClientBehaviours == {"raises", "falsy", "ok"}
CheckNames == <<"configuration", "pipeline", "contact_creation", "deal_flow",
                "metrics">>

\* _validate_configuration; raises: reading crm.config raises
ValidateConfiguration(api_key, pipeline_id, raises) ==
    IF raises THEN "error"
    ELSE IF api_key = "" THEN "failed"
    ELSE IF pipeline_id = "" THEN "failed"
    ELSE "passed"

\* _validate_pipeline, _validate_contact_creation, _validate_deal_flow and
\* _validate_metrics: the status for what the client does
ValidateWithClient(behaviour) ==
    CASE behaviour = "raises" -> "error"
      [] behaviour = "falsy" -> "failed"
      [] OTHER -> "passed"

\* all(r.get("status") == "passed" for r in results)
OverallStatusAny(rs) == \E i \in 1..Len(rs) : rs[i] = "passed"
OverallStatus(rs) == \A i \in 1..Len(rs) : rs[i] = "passed"

NoValidation == [statuses |-> <<>>, overall_status |-> FALSE]

\* CRMValidator.__init__
CrmInit ==
    /\ crmResults = NoValidation
    /\ crmLast = [op |-> "init", api_key |-> "", pipeline_id |-> "",
                  raises |-> FALSE, client |-> <<>>]

\* CRMValidator.run_validation_suite; client: what the HubSpot client does
\* for the four checks after the configuration check
run_validation_suite(api_key, pipeline_id, raises, client) ==
    LET statuses == <<ValidateConfiguration(api_key, pipeline_id, raises)>> \o
                   [i \in 1..4 |-> ValidateWithClient(client[i])]
    IN  /\ crmResults' = [statuses |-> statuses,
                          overall_status |-> OverallStatus(statuses)]
        /\ crmLast' = [op |-> "run_validation_suite", api_key |-> api_key,
                       pipeline_id |-> pipeline_id, raises |-> raises,
                       client |-> client]
        /\ UNCHANGED notCrm

(***************************************************************************)
(* quality.py : QualityChecker (scores and weights in hundredths)          *)
(***************************************************************************)
MetricNames == <<"readability", "completeness", "consistency">>
\* QualityMetric.weight
MetricWeight(m) == IF m = "readability" THEN 40 ELSE 30
\* what metric.calculate(content) does: it raises or returns a score
ScoreValues == {60, 75, 80, 85, 90, 95}
CalculateOutcomes ==
    {[raises |-> TRUE, score |-> 0]} \cup
    {[raises |-> FALSE, score |-> s] : s \in ScoreValues}

\* the score check_quality stores for the outcome
MetricScore(outcome) == IF outcome.raises THEN 0 ELSE outcome.score

\* the severity of the issue check_quality appends ("none": no issue)
IssueSeverity(outcome) ==
    IF outcome.raises THEN "critical"
    ELSE IF outcome.score < 70 THEN "high"
    ELSE IF outcome.score < 80 THEN "medium"
    ELSE "none"

\* _calculate_overall_score: weighted_sum and total_weight
RECURSIVE WeightedSum(_, _)
WeightedSum(scores, i) ==
    IF i = 0 THEN 0
    ELSE scores[i] * MetricWeight(MetricNames[i]) + WeightedSum(scores, i - 1)
RECURSIVE TotalWeight(_)
TotalWeight(i) ==
    IF i = 0 THEN 0 ELSE MetricWeight(MetricNames[i]) + TotalWeight(i - 1)

\* overall_score >= 0.8 and not any(issue['severity'] == 'critical' ...)
PassedNoCriticalOnly(scores, severities) ==
    ~\E i \in 1..Len(severities) : severities[i] = "critical"
Passed(scores, severities) ==
    /\ WeightedSum(scores, Len(scores)) >= 80 * TotalWeight(Len(scores))
    /\ ~\E i \in 1..Len(severities) : severities[i] = "critical"

\* QualityChecker.__init__
QcInit == qcLast = [op |-> "init", outcomes |-> <<>>, metric_scores |-> <<>>,
                    issues |-> <<>>, weighted_sum |-> 0, passed |-> FALSE]

\* QualityChecker.check_quality; outcomes: what each metric's calculate does
check_quality(outcomes) ==
    LET scores == [i \in 1..Len(MetricNames) |-> MetricScore(outcomes[i])]
        severities == [i \in 1..Len(MetricNames) |-> IssueSeverity(outcomes[i])]
    IN  /\ qcLast' = [op |-> "check_quality", outcomes |-> outcomes,
                      metric_scores |-> scores, issues |-> severities,
                      weighted_sum |-> WeightedSum(scores, Len(scores)),
                      passed |-> Passed(scores, severities)]
        /\ UNCHANGED notQc

(***************************************************************************)
(* The background loops: CollaborationSystem.monitor_sessions,             *)
(* SupportManager._run_scheduler, DistributedProcessor._monitor_nodes      *)
(***************************************************************************)
Loops == {"monitor_sessions", "run_scheduler", "monitor_nodes"}

\* the loops running, after CollaborationSystem.monitor_sessions(),
\* SupportManager.start() and DistributedProcessor.start()
LoopInit ==
    /\ loopState = [l \in Loops |-> "running"]
    /\ loopIters = [l \in Loops |-> 0]
    /\ loopErrors = [l \in Loops |-> 0]
    /\ loopLast = [loop |-> "none", raised |-> FALSE]

\* one iteration of monitor_sessions: while True: try: ... except Exception:
\* log, sleep
monitor_sessions(raises) ==
    /\ loopState["monitor_sessions"] = "running"
    /\ loopIters["monitor_sessions"] < MaxIters
    /\ loopIters' = [loopIters EXCEPT !["monitor_sessions"] = @ + 1]
    /\ loopErrors' = IF raises
                     THEN [loopErrors EXCEPT !["monitor_sessions"] = @ + 1]
                     ELSE loopErrors
    /\ loopLast' = [loop |-> "monitor_sessions", raised |-> raises]
    /\ UNCHANGED loopState
    /\ UNCHANGED notLoop

\* one iteration of _run_scheduler: run_pending(), _process_cases(), sleep,
\* with no try; raises: a job or _process_cases raises (_reassign_case calls
\* asyncio.create_task in this thread, which has no running event loop)
run_scheduler(raises) ==
    /\ loopState["run_scheduler"] = "running"
    /\ loopIters["run_scheduler"] < MaxIters
    /\ loopIters' = [loopIters EXCEPT !["run_scheduler"] = @ + 1]
    /\ loopState' = IF raises
                    THEN [loopState EXCEPT !["run_scheduler"] = "terminated"]
                    ELSE loopState
    /\ loopLast' = [loop |-> "run_scheduler", raised |-> raises]
    /\ UNCHANGED loopErrors
    /\ UNCHANGED notLoop

\* one iteration of _monitor_nodes: while True: try: ... except Exception:
\* log, sleep
monitor_nodes(raises) ==
    /\ loopState["monitor_nodes"] = "running"
    /\ loopIters["monitor_nodes"] < MaxIters
    /\ loopIters' = [loopIters EXCEPT !["monitor_nodes"] = @ + 1]
    /\ loopErrors' = IF raises
                     THEN [loopErrors EXCEPT !["monitor_nodes"] = @ + 1]
                     ELSE loopErrors
    /\ loopLast' = [loop |-> "monitor_nodes", raised |-> raises]
    /\ UNCHANGED loopState
    /\ UNCHANGED notLoop

(***************************************************************************)
(* product_enhancer.py : ProductEnhancer                                   *)
(* marketing_manager.py : MarketingManager                                 *)
(* updated_at is the number of saved updates since the record was created  *)
(***************************************************************************)
\* feature and integration ids; only id 1 is ever created
PeIds == {1, 2}
\* list arguments: the empty set is None (or an empty list)
IdLists == {{}, {1}, {2}}
\* the status argument; NoStatus is None
NoStatus == "none"
SolutionStatuses == {NoStatus, "testing", "deployed"}

NoSolution == [status |-> "none", deployed_at |-> FALSE, features |-> {},
               integrations |-> {}, updated_at |-> 0]

\* update_solution on the record: the record after the call and whether
\* ValueError was raised
UpdateSolutionAtomic(solution, known, status, feature_ids, integration_ids) ==
    IF feature_ids \subseteq known.features /\ integration_ids \subseteq known.integrations
    THEN [solution |->
             [status |-> IF status # NoStatus THEN status ELSE solution.status,
              deployed_at |-> solution.deployed_at \/ status = "deployed",
              features |-> IF feature_ids # {} THEN feature_ids ELSE solution.features,
              integrations |-> IF integration_ids # {} THEN integration_ids
                               ELSE solution.integrations,
              updated_at |-> solution.updated_at + 1],
          raised |-> FALSE]
    ELSE [solution |-> solution, raised |-> TRUE]
UpdateSolution(solution, known, status, feature_ids, integration_ids) ==
    LET s1 == IF status # NoStatus
              THEN [solution EXCEPT !.status = status,
                                    !.deployed_at = @ \/ status = "deployed"]
              ELSE solution
    IN  IF ~(feature_ids \subseteq known.features)
        THEN [solution |-> s1, raised |-> TRUE]
        ELSE LET s2 == IF feature_ids # {} THEN [s1 EXCEPT !.features = feature_ids]
                       ELSE s1
             IN  IF ~(integration_ids \subseteq known.integrations)
                 THEN [solution |-> s2, raised |-> TRUE]
                 ELSE [solution |->
                          [(IF integration_ids # {}
                            THEN [s2 EXCEPT !.integrations = integration_ids]
                            ELSE s2) EXCEPT !.updated_at = @ + 1],
                       raised |-> FALSE]

\* the default channels a content item may name, and one that is not one
ChannelNames == {"website", "blog"}
\* the channels argument: given is FALSE for None
ChannelArgs == {[given |-> FALSE, list |-> {}],
                [given |-> TRUE, list |-> {"blog"}],
                [given |-> TRUE, list |-> {"blog", "fax"}]}
\* the content and status arguments; NoStatus is None
ContentArgs == {NoStatus, "text"}
\* the metadata argument: the keys it sets (None sets none)
MetadataArgs == {{}, {"author"}}

NoItem == [content |-> "none", metadata |-> {}, channels |-> {},
           status |-> "none", updated_at |-> 0, version |-> 0]

\* update_content on the item (version is the patch number of item.version)
UpdateContent(item, content, metadata, channels, status) ==
    LET i1 == [item EXCEPT
                 !.content = IF content # NoStatus THEN content ELSE @,
                 !.metadata = @ \cup metadata]
    IN  IF channels.given /\ ~(channels.list \subseteq ChannelNames)
        THEN [item |-> i1, raised |-> TRUE]
        ELSE [item |->
                 [i1 EXCEPT
                    !.channels = IF channels.given THEN channels.list ELSE @,
                    !.status = IF status # NoStatus THEN status ELSE @,
                    !.updated_at = @ + 1,
                    !.version = @ + 1],
              raised |-> FALSE]

UpdLastInit == [op |-> "init", status |-> NoStatus, content |-> NoStatus,
                first |-> {}, second |-> {}, channels |-> {}, raised |-> FALSE]

\* ProductEnhancer.__init__ and MarketingManager.__init__
UpdInit ==
    /\ peKnown = [features |-> {}, integrations |-> {}]
    /\ peSolution = NoSolution
    /\ peFile = NoSolution
    /\ mmItem = NoItem
    /\ mmFile = NoItem
    /\ updLast = UpdLastInit

\* ProductEnhancer.create_feature and create_integration, for id 1
create_integration(both) ==
    /\ peKnown' = [features |-> {1},
                   integrations |-> IF both THEN {1} ELSE peKnown.integrations]
    /\ updLast' = [UpdLastInit EXCEPT !.op = "create_integration"]
    /\ UNCHANGED <<peSolution, peFile, mmItem, mmFile>>
    /\ UNCHANGED notUpd

\* ProductEnhancer.create_solution, with no features and no integrations
create_solution ==
    /\ peSolution = NoSolution
    /\ peSolution' = [NoSolution EXCEPT !.status = "planning"]
    /\ peFile' = peSolution'
    /\ updLast' = [UpdLastInit EXCEPT !.op = "create_solution"]
    /\ UNCHANGED <<peKnown, mmItem, mmFile>>
    /\ UNCHANGED notUpd

\* ProductEnhancer.update_solution on the solution created
update_solution(status, feature_ids, integration_ids) ==
    LET after == UpdateSolution(peSolution, peKnown, status, feature_ids,
                                integration_ids)
    IN  /\ peSolution # NoSolution
        /\ peSolution.updated_at < MaxUpdates
        /\ peSolution' = after.solution
        /\ peFile' = IF after.raised THEN peFile ELSE after.solution
        /\ updLast' = [UpdLastInit EXCEPT !.op = "update_solution",
                         !.status = status, !.first = feature_ids,
                         !.second = integration_ids, !.raised = after.raised]
        /\ UNCHANGED <<peKnown, mmItem, mmFile>>
        /\ UNCHANGED notUpd

\* MarketingManager.create_content, with valid channels
create_content ==
    /\ mmItem = NoItem
    /\ mmItem' = [NoItem EXCEPT !.content = "draft text", !.status = "draft",
                                !.channels = {"website"}]
    /\ mmFile' = mmItem'
    /\ updLast' = [UpdLastInit EXCEPT !.op = "create_content"]
    /\ UNCHANGED <<peKnown, peSolution, peFile>>
    /\ UNCHANGED notUpd

\* MarketingManager.update_content on the item created
update_content_item(content, metadata, channels, status) ==
    LET after == UpdateContent(mmItem, content, metadata, channels, status)
    IN  /\ mmItem # NoItem
        /\ mmItem.updated_at < MaxUpdates
        /\ mmItem' = after.item
        /\ mmFile' = IF after.raised THEN mmFile ELSE after.item
        /\ updLast' = [UpdLastInit EXCEPT !.op = "update_content",
                         !.content = content, !.first = metadata,
                         !.channels = channels.list, !.status = status,
                         !.raised = after.raised]
        /\ UNCHANGED <<peKnown, peSolution, peFile>>
        /\ UNCHANGED notUpd

NextSession ==
    \/ \E u \in Users : add_user(u)
    \/ \E u \in Users : remove_user(u)
    \/ \E u \in Users, f \in Files : acquire_lock(u, f)
    \/ \E u \in Users, f \in Files : release_lock(u, f)

NextCache ==
    \/ \E key \in Keys : cache_get(key)
    \/ \E key \in Keys, value \in {None, 1} : cache_set(key, value)
    \/ cache_clear

NextPerf ==
    \* the load written before func runs is overwritten after it: one sample
    \* stands for both
    \/ \E t \in PTasks, a \in PArgs, o \in FuncOutcomes, c \in CpuVals :
          a <= t /\ optimize_task(t, a, o, c, c)
    \* worker w is registered with capacity w - 1 or w
    \/ \E w \in WorkerIds, c \in Caps :
          c \in {w - 1, w} /\ register_worker(w, c)
    \/ \E w \in WorkerIds : remove_worker(w)
    \/ cache_clear

NextCluster ==
    \/ \E n \in NodeIds, k \in NodeKinds : register_node(n, k)
    \/ \E n \in NodeIds : remove_node(n)
    \/ \E t \in TaskIds, n \in {NoNode, 1} : add_task(t, n, "pending")
    \/ \E t \in TaskIds, st \in {"assigned", "completed", "failed"} :
          update_task_status(t, st, NoResult)

\* process_task callers over a cluster of one node
NextProc ==
    \/ \E k \in NodeKinds :
          k.capacity = 1 /\ k.load = 0 /\ register_node(1, k)
    \/ remove_node(1)
    \/ \E t \in TaskIds, n \in {NoNode, 1}, st \in {"pending", "assigned"} :
          add_task(t, n, st)
    \* a completed task carries result 1, the others none
    \/ \E t \in TaskIds, st \in {"assigned", "completed", "failed"} :
          update_task_status(t, st, IF st = "completed" THEN 1 ELSE NoResult)
    \/ \E p \in Procs, t \in TaskIds : t <= p /\ process_task(p, t)
    \/ \E p \in Procs : process_poll(p)

\* the node monitor over a cluster whose nodes send heartbeats
NextMonitor ==
    \/ \E n \in NodeIds, k \in NodeKinds :
          k.status = "active" /\ k.capacity = 1 /\ k.load = 0
          /\ register_node(n, k)
    \/ \E st \in {"active", "inactive"} : update_node_status(1, st)
    \/ \E n \in NodeIds \cup {NoNode} : add_task(1, n, "pending")
    \/ \E st \in {"assigned", "completed"} : update_task_status(1, st, NoResult)
    \/ \E d \in TickSteps : Tick(d)
    \/ monitor_pass

\* single tests run on a runner whose tests declare at most one dependency
NextTest ==
    \/ \E t \in TestIds, d \in DepLists :
          Len(d) <= 1 /\ register_test(t, "a", d)
    \/ \E t \in TestIds, o \in Outcomes : run_test(t, o)

NextSuite ==
    \/ \E c \in {NoCategory, "a"} : run_suite_start(c)
    \/ \E o \in Outcomes : run_suite_step(o)

\* run_test and run_suite calls on the three runners of a TestingSystem
NextSys ==
    \/ \E t \in Testers, i \in SysTestIds, o \in Outcomes : sys_run_test(t, i, o)
    \/ \E t \in Testers : sys_run_suite_start(t)
    \/ \E o \in Outcomes : sys_run_suite_step(o)

\* execute_gate calls on the Gate managers, one at a time
NextGate ==
    \/ \E g \in Gates : gate_start(g)
    \/ \E v \in BOOLEAN, r \in Reasons : gate_validate(v, r)
    \/ \E x \in BOOLEAN, m \in Messages, v \in StepValues : gate_execute(x, m, v)

NextPreview ==
    \/ \E c \in Contents : update_content(c)
    \/ \E o \in Observers : add_observer(o)
    \/ \E o \in Observers : remove_observer(o)

NextQueue ==
    \/ \E t \in EventTypes : register_processor(t)
    \/ \E t \in EventTypes : push_event(t)
    \/ process_get
    \/ \E x \in BOOLEAN : process_handle(x)

NextEnh ==
    \/ \E f \in FeatureIds : create_feature(f)
    \/ \E r \in ReleaseIds, b \in SUBSET FeatureIds : create_release(r, b)
    \/ \E f \in FeatureIds, st \in FeatureStatuses \cup {"none"} :
          update_feature(f, st)
    \/ \E r \in ReleaseIds, st \in {"none", "in_progress", "released"} :
          update_release(r, st)

NextSup ==
    \* technical teams: the first supports every language, the second one
    \/ \E t \in TeamIds, ls \in LanguageSets :
          /\ t = 1 => ls = Languages
          /\ t = 2 => ls = {"en"}
          /\ create_team(t, "technical", ls)
    \/ \E t \in TeamIds, st \in {"active", "inactive"} : set_shift(t, st)
    \/ \E ty \in SupportTypes, l \in Languages : create_case(ty, l)
    \/ process_cases
    \/ \E c \in CaseIds : find_and_reassign(c)

NextMon ==
    \/ \E m \in MetricIds \cup {UnknownMetric}, v \in MetricValues :
          record_metric(m, v)
    \/ \E a \in AlertSeconds : resolve_alert(a)
    \/ mon_tick

NextAuto ==
    \/ \E n \in TaskNames, r \in BOOLEAN : auto_create_task(n, r)
    \/ auto_tick

NextExec ==
    \/ NextAuto
    \/ auto_start
    \/ \E j \in 1..MaxCreates : auto_execute_task(j)

NextIm ==
    \E c \in IntegrationCases \cup {UnknownCase}, key \in BOOLEAN, docker \in BOOLEAN :
        run_test_case(c, key, docker)

NextCrm ==
    \E k \in ApiKeys, p \in PipelineIds, r \in BOOLEAN,
       client \in [1..4 -> ClientBehaviours] :
        run_validation_suite(k, p, r, client)

NextQc == \E outcomes \in [1..3 -> CalculateOutcomes] : check_quality(outcomes)

NextLoop ==
    \E raises \in BOOLEAN :
        \/ monitor_sessions(raises)
        \/ run_scheduler(raises)
        \/ monitor_nodes(raises)

\* process_task callers over a cluster whose nodes come, go and change
\* status
NextPending ==
    \/ \E n \in NodeIds, k \in NodeKinds :
          k.capacity = 1 /\ k.load = 0 /\ register_node(n, k)
    \/ \E n \in NodeIds, st \in {"active", "inactive"} :
          update_node_status(n, st)
    \/ \E n \in NodeIds : remove_node(n)
    \/ add_task(1, NoNode, "pending")
    \/ \E st \in {"completed", "failed"} : update_task_status(1, st, NoResult)
    \/ \E p \in Procs, t \in TaskIds : t <= p /\ process_task(p, t)
    \/ \E p \in Procs : process_poll(p)

\* cases that are created, reassigned and closed, over two technical teams
NextSupClose ==
    \/ \E t \in TeamIds :
          create_team(t, "technical", IF t = 1 THEN Languages ELSE {"en"})
    \/ \E st \in {"active", "inactive"} : set_shift(1, st)
    \/ \E l \in Languages : create_case("technical", l)
    \/ process_cases
    \/ \E c \in CaseIds : find_and_reassign(c)
    \/ close_case(1)

NextUpd ==
    \/ \E both \in BOOLEAN : create_integration(both)
    \/ create_solution
    \/ \E st \in SolutionStatuses, fs \in IdLists, is \in IdLists :
          update_solution(st, fs, is)
    \/ create_content
    \/ \E c \in ContentArgs, m \in MetadataArgs, ch \in ChannelArgs,
          st \in {NoStatus, "published"} : update_content_item(c, m, ch, st)

Init == SessionInit /\ PerfInit /\ ClusterInit /\ TestInit
        /\ SysInit
        /\ GateInit
        /\ PreviewInit
        /\ QueueInit
        /\ EnhInit
        /\ SupInit
        /\ MonInit
        /\ AutoInit
        /\ ImInit
        /\ CrmInit
        /\ QcInit
        /\ LoopInit
        /\ UpdInit

\* the runners a sequence of register_test calls can build, before any run
RegisteredTests ==
    {ts \in UNION {[1..n -> [id : TestIds, category : Categories,
                             dependencies : DepLists]] :
                n \in 0..Cardinality(TestIds)} :
        \A i, j \in 1..Len(ts) : i # j => ts[i].id # ts[j].id}

InitSuite ==
    /\ SessionInit /\ PerfInit /\ ClusterInit
    /\ UpdInit
    /\ LoopInit
    /\ QcInit
    /\ CrmInit
    /\ ImInit
    /\ AutoInit
    /\ MonInit
    /\ SupInit
    /\ EnhInit
    /\ QueueInit
    /\ PreviewInit
    /\ GateInit
    /\ SysInit
    /\ tests \in RegisteredTests
    /\ results = [t \in TestIds |-> "none"]
    /\ tLast = TLastInit
    /\ suitePc = "idle"
    /\ suite = <<>>
    /\ suiteTodo = <<>>
    /\ suiteLog = <<>>

SpecSession == Init /\ [][NextSession]_vars
SpecCache == Init /\ [][NextCache]_vars
SpecPerf == Init /\ [][NextPerf]_vars
SpecCluster == Init /\ [][NextCluster]_vars
SpecProc == Init /\ [][NextProc]_vars
SpecMonitor == Init /\ [][NextMonitor]_vars
SpecTest == Init /\ [][NextTest]_vars
SpecSuite == InitSuite /\ [][NextSuite]_vars
SpecSys == Init /\ [][NextSys]_vars
SpecGate == Init /\ [][NextGate]_vars
SpecPreview == Init /\ [][NextPreview]_vars
SpecQueue == Init /\ [][NextQueue]_vars
SpecEnh == Init /\ [][NextEnh]_vars
SpecSup == Init /\ [][NextSup]_vars
SpecMon == Init /\ [][NextMon]_vars
SpecAuto == Init /\ [][NextAuto]_vars
SpecExec == Init /\ [][NextExec]_vars
SpecIm == Init /\ [][NextIm]_vars
SpecCrm == Init /\ [][NextCrm]_vars
SpecQc == Init /\ [][NextQc]_vars
SpecLoop == Init /\ [][NextLoop]_vars
SpecPending == Init /\ [][NextPending]_vars
SpecSupClose == Init /\ [][NextSupClose]_vars
SpecUpd == Init /\ [][NextUpd]_vars

(***************************************************************************)
(* Claims                                                                  *)
(***************************************************************************)

\* C1: every file path has at most one lock holder, and acquire_lock(u, f)
\* returns False and leaves the holder of f unchanged whenever f was held
\* by a user other than u when it was called.
C1_ExclusiveLock ==
    /\ \A f \in Files : Cardinality({u \in Users : locks[f] = u}) <= 1
    /\ \A f \in Files : locks[f] \in Users \cup {NoUser}
    /\ (sLast.op = "acquire_lock" /\ sLast.pre[sLast.f] \notin {NoUser, sLast.u})
          => (sLast.ret = FALSE /\ locks = sLast.pre)

C1_Witness ==
    /\ sLast.op = "acquire_lock"
    /\ sLast.pre[sLast.f] \notin {NoUser, sLast.u}
    /\ sLast.ret = FALSE

\* C2 as stated: after remove_user(u) returns, no lock names u as holder
\* (whatever calls came before), and the locks of other users are unchanged.
C2_Original ==
    sLast.op = "remove_user" =>
        /\ \A f \in Files : locks[f] # sLast.u
        /\ \A f \in Files : sLast.pre[f] # sLast.u => locks[f] = sLast.pre[f]

\* C2 amended: after remove_user(u) returns for a user u that was in the
\* session when it was called, no lock names u as holder and the locks of
\* other users are unchanged; for a user that was not in the session the
\* call changes no lock at all (locks taken by a non-member stay held).
C2_RemoveReleases ==
    sLast.op = "remove_user" =>
        /\ sLast.member =>
              /\ \A f \in Files : locks[f] # sLast.u
              /\ \A f \in Files :
                    sLast.pre[f] # sLast.u => locks[f] = sLast.pre[f]
        /\ ~sLast.member => locks = sLast.pre

C2_Witness ==
    /\ sLast.op = "remove_user"
    /\ sLast.member
    /\ \E f \in Files : sLast.pre[f] = sLast.u
    /\ \E f \in Files : locks[f] \notin {NoUser, sLast.u}

\* the keys passed to set since the cache was last empty are pairwise distinct
DistinctSets == \A i, j \in 1..Len(setLog) : i # j => setLog[i] # setLog[j]

\* C3: once max_size + 1 distinct keys have been set on an empty cache,
\* exactly the first-inserted key is gone and the others are kept in
\* insertion order, whatever was read in between; a get of a key that is
\* present adds one to hits (and nothing to misses), a get of a key that is
\* absent (evicted) adds one to misses (and nothing to hits).
C3_FifoEviction ==
    /\ (Len(setLog) = MaxSize + 1 /\ DistinctSets)
          => /\ CacheKeys(cache) = Tail(setLog)
             /\ setLog[1] \notin KeySet(cache)
    /\ (cLast.op = "get" /\ cLast.present)
          => (cLast.dHits = 1 /\ cLast.dMisses = 0)
    /\ (cLast.op = "get" /\ ~cLast.present)
          => (cLast.dHits = 0 /\ cLast.dMisses = 1)

\* max_size + 1 distinct keys were set and the evicted first key is the one
\* read last, by a get that hit
C3_Witness ==
    /\ Len(setLog) = MaxSize + 1
    /\ DistinctSets
    /\ cLast.op = "set"
    /\ lastRead = setLog[1]
    /\ hits >= 1
    /\ misses = 0
    /\ setLog[1] \notin KeySet(cache)

C5_AddTaskAssigns ==
    (kLast.op = "add_task" /\ ~kLast.flag) =>
        LET task == tasks[kLast.tid]
            av == Available(nodes)
        IN  IF av # {}
            THEN /\ task.status = "assigned"
                 /\ \E i \in av :
                       /\ nodes[i].id = task.node
                       /\ nodes[i].status = "active"
                       /\ nodes[i].load < nodes[i].capacity
                       /\ \A j \in av : nodes[i].load <= nodes[j].load
            ELSE task.node = NoNode /\ task.status = "pending"

\* two available nodes of different load, and the task went to the lighter
C5_Witness ==
    /\ kLast.op = "add_task"
    /\ ~kLast.flag
    /\ tasks[kLast.tid].status = "assigned"
    /\ \E i, j \in Available(nodes) : i < j /\ nodes[j].load < nodes[i].load

\* C6 as stated: after remove_node(n) returns, no task that is neither
\* completed nor failed still has node n.
C6_Original ==
    kLast.op = "remove_node" =>
        \A t \in TaskIdSet(tasks) :
            tasks[t].status \notin Terminal => tasks[t].node # kLast.node

\* C6 amended: after remove_node(n) returns for a node n that was
\* registered, n is gone and no task that is neither completed nor failed
\* still has node n: each such task is either 'assigned' to a registered
\* available node or 'pending' with no node, and every other task
\* (completed, failed, or on another node) is unchanged. remove_node(n) for
\* a node that is not registered changes nothing: tasks that name such a
\* node keep it.
C6_Step ==
    kLast'.op = "remove_node" =>
        LET n == kLast'.node
        IN  IF n \in NodeIdSet(nodes)
            THEN /\ NodeIdSet(nodes') = NodeIdSet(nodes) \ {n}
                 /\ \A t \in TaskIds :
                       IF /\ tasks[t] # NoTask
                          /\ tasks[t].node = n
                          /\ tasks[t].status \notin Terminal
                       THEN \/ /\ tasks'[t].status = "assigned"
                               /\ tasks'[t].node \in AvailableIds(nodes')
                            \/ /\ tasks'[t].status = "pending"
                               /\ tasks'[t].node = NoNode
                       ELSE tasks'[t] = tasks[t]
                 /\ \A t \in TaskIdSet(tasks') :
                       tasks'[t].status \notin Terminal => tasks'[t].node # n
            ELSE nodes' = nodes /\ tasks' = tasks

C6_RemoveNodeReassigns == [][C6_Step]_vars

\* a registered node was removed; one of its tasks moved to another node
\* and a completed task still names the removed node
C6_Witness ==
    /\ kLast.op = "remove_node"
    /\ kLast.flag
    /\ \E t \in kLast.moved : tasks[t].status = "assigned"
    /\ \E t \in TaskIdSet(tasks) :
          tasks[t].status \in Terminal /\ tasks[t].node = kLast.node

\* C7: process_task does not return while the task it submitted is
\* 'pending' or 'assigned': it returns, with the task's result, only at a
\* poll that finds the task 'completed', and raises only at a poll that
\* finds it 'failed'.
C7_Step ==
    \A p \in Procs :
        /\ pc'[p] = "returned" /\ pc[p] # "returned"
              => /\ pc[p] = "polling"
                 /\ Polled(p).status = "completed"
                 /\ pret'[p] = Polled(p).result
        /\ pc'[p] = "raised" /\ pc[p] # "raised"
              => /\ pc[p] = "polling"
                 /\ Polled(p).status = "failed"
        /\ pc[p] = "polling" /\ Polled(p).status \in {"pending", "assigned"}
              => pc'[p] = "polling"

C7_ProcessTaskWaits == [][C7_Step]_vars

C7_Witness ==
    \E p \in Procs : pc[p] = "returned" /\ pret[p] = 1

\* C8: a pass of the node monitor removes every registered node whose last
\* heartbeat is more than 30 seconds old and no other node; after the pass
\* no task that is neither completed nor failed is on a removed node: it
\* is 'assigned' to an available node that is still registered, or
\* 'pending' with no node; tasks that were not on a removed node, and
\* completed or failed tasks, are unchanged.
C8_Step ==
    kLast'.op = "monitor" =>
        LET late == {i \in 1..Len(nodes) : now - nodes[i].last_heartbeat > 30}
            lateIds == {nodes[i].id : i \in late}
        IN  /\ NodeIdSet(nodes') = NodeIdSet(nodes) \ lateIds
            /\ \A i \in 1..Len(nodes) :
                  i \notin late => \E j \in 1..Len(nodes') : nodes'[j] = nodes[i]
            /\ \A t \in TaskIds :
                  IF /\ tasks[t] # NoTask
                     /\ tasks[t].node \in lateIds
                     /\ tasks[t].status \notin Terminal
                  THEN \/ /\ tasks'[t].status = "assigned"
                          /\ tasks'[t].node \in AvailableIds(nodes')
                       \/ /\ tasks'[t].status = "pending"
                          /\ tasks'[t].node = NoNode
                  ELSE tasks'[t] = tasks[t]

C8_MonitorEvicts == [][C8_Step]_vars

\* a pass removed a late node, moved its task to a node that stayed, and
\* one of the nodes that stayed had a heartbeat exactly 30 seconds old
C8_Witness ==
    /\ kLast.op = "monitor"
    /\ kLast.removed # {}
    /\ \E t \in kLast.moved : tasks[t].status = "assigned"
    /\ \E i \in 1..Len(nodes) : now - nodes[i].last_heartbeat = 30

\* the results as they were when the last run_test was called, and whether
\* every dependency the test declares had recorded 'passed' then
PreResults == [results EXCEPT ![tLast.id] = tLast.preStatus]
PreDepsPassed ==
    LET deps == TestOf(tests, tLast.id).dependencies
    IN  \A i \in 1..Len(deps) : PreResults[deps[i]] = "passed"

RECURSIVE Reach(_, _, _)
Reach(ts, test_id, n) ==
    IF n = 0 \/ test_id \notin TestIdSet(ts) THEN {}
    ELSE LET deps == {TestOf(ts, test_id).dependencies[i] :
                        i \in 1..Len(TestOf(ts, test_id).dependencies)}
         IN  deps \cup UNION {Reach(ts, d, n - 1) : d \in deps}

\* the dependency graph of ts is acyclic and stays inside ts
Acyclic(ts) == \A t \in TestIdSet(ts) : t \notin Reach(ts, t, Len(ts))
DepsInside(ts) == \A t \in TestIdSet(ts) : Reach(ts, t, 1) \subseteq TestIdSet(ts)

\* C10: for a suite whose dependency graph is acyclic and whose
\* dependencies all belong to the suite, run_suite sorts without raising,
\* runs no test twice, runs a test only after every test it declares a
\* dependency on, and has run every test of the suite when it is done.
C10_SuiteOrder ==
    (suitePc # "idle" /\ Acyclic(suite) /\ DepsInside(suite)) =>
        /\ suitePc \in {"running", "done"}
        /\ \A i, j \in 1..Len(suiteLog) : i # j => suiteLog[i] # suiteLog[j]
        /\ \A i \in 1..Len(suiteLog) :
              /\ suiteLog[i] \in TestIdSet(suite)
              /\ \A d \in Reach(suite, suiteLog[i], 1) :
                    \E j \in 1..(i - 1) : suiteLog[j] = d
        /\ suitePc = "done" =>
              {suiteLog[i] : i \in 1..Len(suiteLog)} = TestIdSet(suite)

\* a suite of three tests ran to the end, one of them registered before a
\* test it depends on
C10_Witness ==
    /\ suitePc = "done"
    /\ Len(suiteLog) = 3
    /\ Acyclic(suite)
    /\ DepsInside(suite)
    /\ \E i, j \in 1..Len(suite) :
          i < j /\ suite[j].id \in Reach(suite, suite[i].id, 1)

\* C11 as stated: get_test_summary's total equals the number of test
\* executions performed so far, and total = passed + failed + timeout.
C11_Original ==
    LET s == GetTestSummary(sysResults)
    IN  /\ s.total = sysRuns
        /\ s.total = s.passed + s.failed + s.timeout

\* C11 amended: get_test_summary's total is the number of distinct tests
\* (per runner) that have been executed so far, each counted once with its
\* latest result, so it is at most the number of executions; and
\* total = passed + failed + timeout.
C11_SummaryTotals ==
    LET s == GetTestSummary(sysResults)
    IN  /\ s.total = Cardinality(sysRan)
        /\ s.total <= sysRuns
        /\ s.total = s.passed + s.failed + s.timeout

\* every runner has results, one test was executed twice, and the three
\* statuses are all present
C11_Witness ==
    LET s == GetTestSummary(sysResults)
    IN  /\ \A t \in Testers : \E i \in SysTestIds : <<t, i>> \in sysRan
        /\ sysRuns > Cardinality(sysRan)
        /\ s.passed > 0 /\ s.failed > 0 /\ s.timeout > 0

\* C12: for every Gate manager, when the second step's validate() returns
\* invalid, execute_gate returns a GateResult with status 'failed' and step
\* equal to the second step's name, having executed only the first step:
\* the execute() of the second and of the third step is never invoked.
C12_GateShortCircuit ==
    (Len(gValidated) >= 2 /\ ~gValidated[2][2]) =>
        /\ gPc = "done"
        /\ gRet.status = "failed"
        /\ gRet.step = GateSteps(gGate)[2]
        /\ Len(gValidated) = 2
        /\ Len(gInvoked) = 1
        /\ gInvoked[1][1] = GateSteps(gGate)[1]

\* the second step of the five-step gate was found invalid
C12_Witness ==
    /\ gGate = 4
    /\ Len(gValidated) = 2
    /\ ~gValidated[2][2]
    /\ gRet = GateFailed("scalability", "r2")

\* C13 as stated: in every Gate manager (Gates 0 to 4), when a step's
\* execute() raises, execute_gate does not propagate the exception but
\* returns a GateResult with status 'failed', step set to that step's name
\* and reason set to the exception's message, and runs no later step.
C13_Original ==
    \A i \in 1..Len(gInvoked) :
        gInvoked[i][2] =>
            /\ gPc = "done"
            /\ gRet = GateFailed(gInvoked[i][1], gInvoked[i][3])
            /\ i = Len(gInvoked)
            /\ Len(gValidated) = i

\* C13 as the code has it: Gate1Manager to Gate4Manager return that failed
\* GateResult; Gate0Manager lets the exception propagate to its caller. In
\* both cases no later step is validated or executed.
C13_ExecuteRaises ==
    \A i \in 1..Len(gInvoked) :
        gInvoked[i][2] =>
            /\ gPc = "done"
            /\ gRet = IF gGate = 0 THEN GateRaised(gInvoked[i][3])
                      ELSE GateFailed(gInvoked[i][1], gInvoked[i][3])
            /\ i = Len(gInvoked)
            /\ Len(gValidated) = i

\* the second step of Gate0Manager raised and execute_gate raised with it
C13_Witness ==
    /\ gGate = 0
    /\ Len(gInvoked) = 2
    /\ gInvoked[2][2]
    /\ gRet.status = "raised"

\* the calls an update makes when every observer registered before it is
\* called once, in list order, with the new content and version
ExpectedCalls ==
    [i \in 1..Len(pvLast.obs) |-> <<pvLast.obs[i], pvContent, pvVersion>>]

\* C14 as stated: a DocumentPreview's version starts at 0, increases by
\* exactly 1 on every update_content call and never decreases, and every
\* update calls each registered observer once with the new content and
\* version; an observer that raises does not stop the remaining observers
\* from being called nor the update from completing.
C14_Original ==
    /\ pvVersion = pvUpdates
    /\ pvLast.op = "update_content" => pvCalls = ExpectedCalls

\* C14 as the code has it: the version counts the update_content calls;
\* every call an update makes carries the new content and version; when no
\* registered observer removes an observer while it is being notified, each
\* registered observer is called once, in list order, whether or not some
\* of them raise. When one does remove itself, the observer registered
\* right after it is not called by that update.
C14_PreviewUpdate ==
    /\ pvVersion = pvUpdates
    /\ \A i \in 1..Len(pvCalls) :
          pvCalls[i][2] = pvContent /\ pvCalls[i][3] = pvVersion
    /\ pvLast.op = "update_content" =>
          /\ (\A i \in 1..Len(pvLast.obs) : pvLast.obs[i] # "unsubscribing")
                => pvCalls = ExpectedCalls /\ pvObservers = pvLast.obs
          /\ \A i \in 1..(Len(pvLast.obs) - 1) :
                (/\ pvLast.obs[i] = "unsubscribing"
                 /\ \A j \in 1..(i - 1) : pvLast.obs[j] # "unsubscribing")
                => /\ Len(pvCalls) < Len(pvLast.obs)
                   /\ pvCalls[i][1] = "unsubscribing"
                   /\ (i < Len(pvCalls) => pvCalls[i + 1][1] = pvLast.obs[i + 2])

\* a raising observer came first and the two after it were still called
C14_Witness ==
    /\ pvLast.op = "update_content"
    /\ pvLast.obs = <<"raising", "plain", "raising">>
    /\ Len(pvCalls) = 3
    /\ pvVersion = 2

\* C15: events pushed to the Update Queue are each handled exactly once, in
\* the order they were pushed, by the single consumer loop: the events
\* consumed, the one being handled and the ones waiting are, in this order,
\* the events pushed. An event whose handler raises, or whose type has no
\* registered handler, is consumed without being retried or re-queued.
C15_QueueFifo ==
    /\ [i \in 1..Len(qHandled) |-> qHandled[i][1]]
          \o (IF qPc = "handling" THEN <<qEvent.id>> ELSE <<>>)
          \o [i \in 1..Len(qQueue) |-> qQueue[i].id]
       = [i \in 1..Len(qPushed) |-> i]
    /\ \A i \in 1..Len(qQueue) : qQueue[i] = qPushed[qQueue[i].id]
    /\ qPc = "handling" => qEvent = qPushed[qEvent.id]

\* a failed event and a dropped event were consumed, and the consumer went
\* on to process the event pushed after them
C15_Witness ==
    /\ Len(qHandled) = 3
    /\ qHandled[1][2] = "failed"
    /\ qHandled[2][2] = "dropped"
    /\ qHandled[3][2] = "processed"
    /\ qQueue # <<>>

\* C16 as stated: a Feature's status follows proposed -> approved ->
\* in_progress -> testing -> completed -> released: no update_feature or
\* update_release call moves a feature to a status that comes earlier in
\* that order than its current one.
C16_OriginalStep ==
    eLast'.op \in {"update_feature", "update_release"} =>
        \A f \in FeatureIdSet(features) :
            StatusRank(features'[f].status) >= StatusRank(features[f].status)

C16_Original == [][C16_OriginalStep]_vars

\* C16 as the code has it: update_feature(f, status) sets the status of a
\* known feature f to the status it is given, whatever the current one is,
\* and leaves every other feature alone; only update_release never moves a
\* feature backwards.
C16_Step ==
    /\ (eLast'.op = "update_feature" /\ ~eLast'.raised /\ eLast'.status # "none")
          => /\ features'[eLast'.id].status = eLast'.status
             /\ \A f \in FeatureIds \ {eLast'.id} : features'[f] = features[f]
    /\ eLast'.op = "update_release"
          => \A f \in FeatureIdSet(features) :
                StatusRank(features'[f].status) >= StatusRank(features[f].status)

C16_StatusIsSet == [][C16_Step]_vars

\* a feature that had been released is back to 'proposed'
C16_Witness ==
    /\ eLast.op = "update_feature"
    /\ eLast.status = "proposed"
    /\ features[eLast.id].status = "proposed"
    /\ features[eLast.id].released_at

\* C17: after update_release(r, status='released') returns, every feature
\* bundled in release r has status released and a released_at timestamp,
\* and features not bundled in r are unchanged.
C17_Step ==
    (eLast'.op = "update_release" /\ eLast'.status = "released" /\ ~eLast'.raised)
        => /\ \A f \in releases[eLast'.id].features :
                 /\ features'[f].status = "released"
                 /\ features'[f].released_at
           /\ \A f \in FeatureIds \ releases[eLast'.id].features :
                 features'[f] = features[f]
           /\ releases'[eLast'.id].status = "released"
           /\ releases'[eLast'.id].features = releases[eLast'.id].features

C17_ReleaseCascades == [][C17_Step]_vars

\* a release that bundles one of two features was released: the bundled
\* feature, which was not released before, is, and the other is not
C17_Witness ==
    /\ eLast.op = "update_release"
    /\ eLast.status = "released"
    /\ ~eLast.raised
    /\ \E f, g \in FeatureIds :
          /\ releases[eLast.id].features = {f}
          /\ features[f].status = "released"
          /\ ~features[f].completed_at
          /\ features[g].status = "testing"

\* the teams that qualify for the create_case call recorded in s, as places
\* in self.teams: matching type, supporting the language, active and
\* holding fewer cases than their concurrent-case capacity
Eligible(s) ==
    {i \in 1..Len(supTeams) :
        /\ supTeams[i].type = s.type
        /\ s.language \in supTeams[i].languages
        /\ supTeams[i].status = "active"
        /\ Len(supCases[supTeams[i].id]) < ConcurrentCases}

\* C18: create_case assigns the new case to a team that matches the
\* requested type, supports the language, is active and holds fewer cases
\* than its concurrent-case capacity, choosing one with the fewest cases,
\* and raises without creating a case when no team qualifies.
C18_Step ==
    supLast'.op = "create_case" =>
        IF Eligible(supLast') = {}
        THEN /\ supLast'.raised
             /\ supCases' = supCases
             /\ supCase' = supCase
        ELSE /\ ~supLast'.raised
             /\ supCase[supLast'.case] = NoCase
             /\ \E i \in Eligible(supLast') :
                   LET t == supTeams[i].id
                   IN  /\ supCase'[supLast'.case].team_id = t
                       /\ \A j \in Eligible(supLast') :
                             Len(supCases[t]) <= Len(supCases[supTeams[j].id])
                       /\ supCases' = [supCases EXCEPT
                                         ![t] = Append(@, supLast'.case)]

\* ... so after any sequence of case creations and reassignments no team's
\* case list exceeds its capacity.
C18_CaseAssignment ==
    /\ [](\A t \in TeamIds : Len(supCases[t]) <= ConcurrentCases)
    /\ [][C18_Step]_vars

\* two teams qualified, the first below capacity with one case; the second
\* held none and got the new case
C18_Witness ==
    /\ supLast.op = "create_case"
    /\ ~supLast.raised
    /\ Len(supTeams) = 2
    /\ supCase[supLast.case].team_id = supTeams[2].id
    /\ supCases[supTeams[2].id] = <<supLast.case>>
    /\ Len(supCases[supTeams[1].id]) = 1
    /\ 1 < ConcurrentCases
    /\ supTeams[1].status = "active"
    /\ supTeams[1].type = supLast.type
    /\ supLast.language \in supTeams[1].languages

\* C19: record_metric creates at most one alert per recorded point: a
\* critical alert (and no warning alert) when the value breaches (is at
\* least) the metric's critical threshold, a warning alert when it breaches
\* only the warning threshold, and no alert otherwise or when the metric
\* has no threshold.
C19_Step ==
    (monLast'.op = "record_metric" /\ ~monLast'.raised) =>
        LET m == monLast'.metric_id
            v == monLast'.value
            th == Threshold(m)
            critical == th.critical # NoLevel /\ v >= th.critical
            warning == th.warning # NoLevel /\ v >= th.warning
            created == SubSeq(monCreated', Len(monCreated) + 1, Len(monCreated'))
            alert(sev) == [metric_id |-> m, severity |-> sev,
                           current_value |-> v, status |-> "active"]
        IN  /\ monCreated = SubSeq(monCreated', 1, Len(monCreated))
            /\ Len(created) <= 1
            /\ critical => created = <<alert("critical")>>
            /\ (warning /\ ~critical) => created = <<alert("warning")>>
            /\ (~warning /\ ~critical) => created = <<>> /\ monAlerts' = monAlerts
            /\ created # <<>> => monAlerts'[monNow] = created[1]
            /\ monData'[m] = Append(monData[m], v)

C19_RecordMetricAlerts == [][C19_Step]_vars

\* a value above both thresholds made one critical alert; a value between
\* them made a warning alert
C19_Witness ==
    /\ Len(monCreated) = 2
    /\ monCreated[1].metric_id = "both"
    /\ monCreated[1].severity = "warning"
    /\ monCreated[2] = [metric_id |-> "both", severity |-> "critical",
                        current_value |-> 3, status |-> "active"]
    /\ monLast.op = "record_metric"
    /\ Len(monData["both"]) = 2

\* the index in created of the last create in second s (0: none)
LastCreateAt(created, s) ==
    LET at == {i \in 1..Len(created) : created[i][1] = s}
    IN  IF at = {} THEN 0 ELSE CHOOSE i \in at : \A j \in at : j <= i

\* C20: two AutomationTasks created within the same second get the same id
\* "task-<timestamp>", and the second create overwrites the first in the
\* tasks map and on disk: the map and the directory hold, under the id of
\* each second, the single task of the last create of that second.
C20_SameSecondOverwrites ==
    LET created == autoLast.created
        seconds == {created[i][1] : i \in 1..Len(created)}
    IN  /\ DOMAIN autoTasks = {TaskId(s, 0) : s \in seconds}
        /\ DOMAIN autoDisk = DOMAIN autoTasks
        /\ Cardinality(DOMAIN autoTasks) = Cardinality(seconds)
        /\ \A s \in seconds :
              LET name == created[LastCreateAt(created, s)][2]
              IN  /\ autoTasks[TaskId(s, 0)].name = name
                  /\ autoDisk[TaskId(s, 0)].name = name
                  /\ autoTasks[TaskId(s, 0)].id = TaskId(s, 0)
        /\ autoLast.op = "create_task" => autoLast.id = TaskId(autoNow, 0)

\* two tasks of different names were created in second 1: one task is left
C20_Witness ==
    /\ Len(autoLast.created) = 2
    /\ autoLast.created[1] = <<1, "backup">>
    /\ autoLast.created[2] = <<1, "report">>
    /\ Cardinality(DOMAIN autoTasks) = 1
    /\ autoTasks[TaskId(1, 0)].name = "report"
    /\ autoDisk[TaskId(1, 0)].name = "report"
    /\ Len(autoJobs) = 2

\* the last TaskExecution of the task _execute_task last ran
LastExecution == autoExecs[autoLast.id][Len(autoExecs[autoLast.id])]
LastExecutionFailed ==
    /\ autoLast.op = "execute"
    /\ LET actions == TaskActions(autoTasks[autoLast.id].name)
       IN  "no_type" \in {actions[i] : i \in 1..Len(actions)}

\* C21 (as stated): when an action fails while an automation task runs, the
\* TaskExecution ends 'failed' with an error line and its end_time set, no
\* exception leaves the execution, and the scheduler loop keeps running.
C21_Original ==
    LastExecutionFailed =>
        /\ LastExecution.status = "failed"
        /\ "Error" \in {LastExecution.logs[i] : i \in 1..Len(LastExecution.logs)}
        /\ LastExecution.end_time
        /\ ~autoLast.raised
        /\ autoThread = "running"

\* C21 (what the code does): the failed action is caught and recorded, but
\* the finally block raises when the schedule_config has a key that
\* _calculate_next_run does not take, and then the scheduler thread ends.
C21_FailureRecorded ==
    LastExecutionFailed =>
        /\ LastExecution.status = "failed"
        /\ LastExecution.logs = <<"Error">>
        /\ LastExecution.end_time
        /\ autoLast.raised =
              CalculateNextRunRaises(ScheduleConfig(autoTasks[autoLast.id].name))
        /\ autoThread = IF autoLast.raised THEN "dead" ELSE "running"

\* an hourly task with a failing action ran: the loop is still running
C21_Witness ==
    /\ LastExecutionFailed
    /\ autoTasks[autoLast.id].name = "report"
    /\ LastExecution.status = "failed"
    /\ autoThread = "running"

\* the steps of case c whose action _execute_step knows (raised = FALSE) or
\* does not know (raised = TRUE)
C22_Steps(c, raised) ==
    LET known == {"initialize_crm", "create_instance", "create_content",
                  "track_metrics"}
    IN  SelectSeq(CaseSteps(c), LAMBDA a : (a \notin known) = raised)

C22_Missing(c, key, docker) ==
    \/ c = "crm_integration" /\ ~key
    \/ c = "demo_environment" /\ ~docker

\* a TestResult of this status was appended to the results of case c
C22_Recorded(c, status) ==
    /\ Len(imResults'[c]) = Len(imResults[c]) + 1
    /\ imResults'[c][Len(imResults'[c])].status = status
    /\ imResults'[c][Len(imResults'[c])].output = C22_Steps(c, FALSE)
    /\ imResults'[c][Len(imResults'[c])].errors = C22_Steps(c, TRUE)
    /\ imStatus'[c] = status

\* C22 (as stated): run_test_case on a registered case always records a
\* TestResult: 'error' when a prerequisite is missing, else 'passed'
\* exactly when no step raised and 'failed' otherwise, with the outputs of
\* the steps that succeeded and one error per failed step.
C22_OriginalStep ==
    (imLast'.op = "run_test_case" /\ imLast'.case \in IntegrationCases) =>
        LET c == imLast'.case
        IN  /\ imLast'.raised = "none"
            /\ Len(imResults'[c]) = Len(imResults[c]) + 1
            /\ IF C22_Missing(c, imLast'.key, imLast'.docker)
               THEN imResults'[c][Len(imResults'[c])].status = "error"
               ELSE C22_Recorded(c, IF C22_Steps(c, TRUE) = <<>> THEN "passed"
                                    ELSE "failed")

C22_Original == [][C22_OriginalStep]_vars

\* C22 (what the code does): the TestResult is recorded as stated when at
\* least one step succeeded; when the output is empty (a prerequisite is
\* missing, or every step raised) _calculate_metrics divides by zero and
\* run_test_case raises without recording a result.
C22_Step ==
    (imLast'.op = "run_test_case" /\ imLast'.case \in IntegrationCases) =>
        LET c == imLast'.case
            missing == C22_Missing(c, imLast'.key, imLast'.docker)
        IN  IF missing \/ C22_Steps(c, FALSE) = <<>>
            THEN /\ imLast'.raised = "ZeroDivisionError"
                 /\ imResults' = imResults
                 /\ imStatus'[c] = IF missing THEN "error" ELSE "failed"
            ELSE /\ imLast'.raised = "none"
                 /\ C22_Recorded(c, IF C22_Steps(c, TRUE) = <<>> THEN "passed"
                                    ELSE "failed")

C22_ResultUnlessEmpty == [][C22_Step]_vars

\* marketing_system failed with two outputs and one error, and then
\* collateral_system, whose steps all fail, raised
C22_Witness ==
    /\ imLast.case = "collateral_system"
    /\ imLast.raised = "ZeroDivisionError"
    /\ imStatus["collateral_system"] = "failed"
    /\ imResults["collateral_system"] = <<>>
    /\ Len(imResults["marketing_system"]) = 1
    /\ imResults["marketing_system"][1].status = "failed"
    /\ imResults["marketing_system"][1].output = <<"create_content", "track_metrics">>
    /\ imResults["marketing_system"][1].errors = <<"create_campaign">>

\* C23: run_validation_suite's overall_status is True exactly when all five
\* sub-checks report 'passed'; with a missing API key the configuration
\* check reports 'failed' and overall_status is False whatever the other
\* four checks report.
C23_OverallIsAnd ==
    crmLast.op = "run_validation_suite" =>
        /\ Len(crmResults.statuses) = 5
        /\ crmResults.overall_status =
              (\A i \in 1..5 : crmResults.statuses[i] = "passed")
        /\ (crmLast.api_key = "" /\ ~crmLast.raises) =>
              /\ crmResults.statuses[1] = "failed"
              /\ crmResults.overall_status = FALSE

\* the API key was missing and the four other checks passed
C23_Witness ==
    /\ crmLast.op = "run_validation_suite"
    /\ crmLast.api_key = ""
    /\ crmLast.pipeline_id = "pipeline"
    /\ crmResults.statuses = <<"failed", "passed", "passed", "passed", "passed">>
    /\ ~crmResults.overall_status

\* C24: check_quality reports passed exactly when the weighted overall
\* score (0.4, 0.3, 0.3) is at least 0.8 and no issue is critical; a metric
\* whose computation raises contributes score 0.0 and a critical issue.
C24_PassedIffScoreAndNoCritical ==
    qcLast.op = "check_quality" =>
        LET o == qcLast.outcomes
            s(i) == IF o[i].raises THEN 0 ELSE o[i].score
        IN  /\ qcLast.passed =
                  (/\ 40 * s(1) + 30 * s(2) + 30 * s(3) >= 80 * 100
                   /\ \A i \in 1..3 : qcLast.issues[i] # "critical")
            /\ \A i \in 1..3 :
                  /\ o[i].raises => /\ qcLast.metric_scores[i] = 0
                                    /\ qcLast.issues[i] = "critical"
                  /\ ~o[i].raises => /\ qcLast.metric_scores[i] = o[i].score
                                     /\ qcLast.issues[i] # "critical"

\* consistency raised: score 0, a critical issue, not passed
C24_Witness ==
    /\ qcLast.op = "check_quality"
    /\ qcLast.outcomes[1] = [raises |-> FALSE, score |-> 95]
    /\ qcLast.outcomes[3].raises
    /\ qcLast.metric_scores[3] = 0
    /\ qcLast.issues = <<"none", "none", "critical">>
    /\ ~qcLast.passed

\* C25 (as stated): an exception raised inside one iteration of the session
\* monitor, the support-case scheduler loop or the node heartbeat monitor
\* is caught inside the loop body, and the loop goes on.
C25_Original ==
    loopLast.raised => loopState[loopLast.loop] = "running"

\* C25 (what the code does): the two monitors catch the exception, log it
\* and go on; the support scheduler loop has no try, so the exception ends
\* the loop.
C25_MonitorsCatch ==
    /\ loopState["monitor_sessions"] = "running"
    /\ loopState["monitor_nodes"] = "running"
    /\ loopErrors["monitor_sessions"] <= loopIters["monitor_sessions"]
    /\ loopErrors["monitor_nodes"] <= loopIters["monitor_nodes"]
    /\ loopErrors["run_scheduler"] = 0
    /\ (loopLast.raised /\ loopLast.loop = "run_scheduler") =>
          loopState["run_scheduler"] = "terminated"
    /\ (loopLast.raised /\ loopLast.loop # "run_scheduler") =>
          loopErrors[loopLast.loop] >= 1

\* the session monitor raised in its first iteration and ran a second one;
\* the scheduler loop raised and ended
C25_Witness ==
    /\ loopIters["monitor_sessions"] = 2
    /\ loopErrors["monitor_sessions"] = 1
    /\ loopLast = [loop |-> "monitor_sessions", raised |-> FALSE]
    /\ loopState["run_scheduler"] = "terminated"
    /\ loopState["monitor_sessions"] = "running"

\* C26 (as stated): the dependency sort terminates with an ordering for
\* every acyclic dependency graph, and does not terminate normally when the
\* suite's declared dependencies contain a cycle.
C26_Original ==
    suitePc # "idle" =>
        /\ Acyclic(suite) => suitePc # "raised"
        /\ ~Acyclic(suite) => suitePc = "raised"

\* C26 (amended): the sort terminates with an ordering of the suite's tests
\* when the graph is acyclic and every dependency belongs to the suite; it
\* raises ValueError when the graph is acyclic and a dependency is not in
\* the suite; it does not return when the dependencies contain a cycle.
C26_SortTerminates ==
    suitePc # "idle" =>
        LET sorted == SortByDependencies(suite)
        IN  /\ (Acyclic(suite) /\ DepsInside(suite)) =>
                  /\ suitePc # "raised"
                  /\ sorted.err = "none"
                  /\ Len(sorted.order) = Len(suite)
                  /\ {sorted.order[i] : i \in 1..Len(sorted.order)} = TestIdSet(suite)
            /\ (Acyclic(suite) /\ ~DepsInside(suite)) =>
                  /\ suitePc = "raised"
                  /\ sorted.err = "not found"
            /\ ~Acyclic(suite) =>
                  /\ suitePc = "raised"
                  /\ sorted.err \in {"recursion", "not found"}

\* a suite of two tests that depend on each other: the sort recursed
C26_Witness ==
    /\ suitePc = "raised"
    /\ Len(suite) = 2
    /\ ~Acyclic(suite)
    /\ DepsInside(suite)
    /\ SortByDependencies(suite).err = "recursion"

\* C27: a task left 'pending' with no node by add_task is assigned by no
\* later register_node, update_node_status or remove_node, and a
\* process_task caller polling a 'pending' task goes on polling it, with
\* the task still 'pending', through every step other than an
\* update_task_status.
C27_Step ==
    /\ \A t \in TaskIds :
          (/\ tasks[t].status = "pending"
           /\ tasks[t].node = NoNode
           /\ kLast'.op \in {"register_node", "update_node_status",
                             "remove_node"}) => tasks'[t] = tasks[t]
    /\ \A p \in Procs :
          (/\ pc[p] = "polling"
           /\ Polled(p).status = "pending"
           /\ kLast'.op # "update_task_status") =>
              /\ pc'[p] = "polling"
              /\ Polled(p)'.status = "pending"
              /\ Polled(p)'.node = NoNode

C27_PendingNeverRetried == [][C27_Step]_vars

\* a task was added with no node available, an available node was
\* registered afterwards, and the caller is still polling the pending task
C27_Witness ==
    /\ kLast.op = "register_node"
    /\ Available(nodes) # {}
    /\ pc[1] = "polling"
    /\ tasks[ptid[1]].status = "pending"
    /\ tasks[ptid[1]].node = NoNode
    /\ pown[1] = NoTask

\* C28: a set on a full cache evicts the oldest-inserted key, also when the
\* key being set is already present: such an overwrite leaves the cache one
\* entry short of max_size, or, if the key was itself the oldest, moves it
\* to the newest position; a set on a cache that is not full evicts nothing.
C28_Step ==
    cLast'.op = "set" =>
        LET key == cLast'.key
            full == Len(cache) >= MaxSize
            oldest == Head(cache).key
        IN  /\ key \in KeySet(cache')
            /\ (full /\ key # oldest) => oldest \notin KeySet(cache')
            /\ (full /\ key \in KeySet(cache) /\ key # oldest) =>
                  /\ Len(cache') = MaxSize - 1
                  /\ CacheKeys(cache') = Tail(CacheKeys(cache))
            /\ (full /\ key = oldest) =>
                  CacheKeys(cache') = Append(Tail(CacheKeys(cache)), key)
            /\ (full /\ key \notin KeySet(cache)) =>
                  CacheKeys(cache') = Append(Tail(CacheKeys(cache)), key)
            /\ ~full => KeySet(cache') = KeySet(cache) \cup {key}

\* C28: a CacheManager with max_size >= 1 never holds more than max_size
\* entries, and set evicts as C28_Step says
C28_OverwriteEvicts == [](Len(cache) <= MaxSize) /\ [][C28_Step]_vars

\* the cache was full and the key set was present and not the oldest: the
\* cache is one entry short of max_size
C28_Witness ==
    /\ cLast.op = "set"
    /\ cLast.present
    /\ Len(setLog) = MaxSize + 1
    /\ Len(cache) = MaxSize - 1
    /\ setLog[1] \notin KeySet(cache)
    /\ cLast.key = setLog[MaxSize]

\* the cases listed under team t
C29_Listed(cs, t) == {cs[t][i] : i \in 1..Len(cs[t])}

\* C29: a team's case list only grows (every step keeps the list as a
\* prefix of the new one), a reassigned case stays listed under the team
\* it leaves, a closed case stays listed, and a team whose list has reached
\* the concurrent-case capacity gets no further case.
C29_Step ==
    /\ \A t \in TeamIds :
          /\ Len(supCases'[t]) >= Len(supCases[t])
          /\ SubSeq(supCases'[t], 1, Len(supCases[t])) = supCases[t]
          /\ Len(supCases[t]) >= ConcurrentCases => supCases'[t] = supCases[t]
    /\ \A c \in CaseIds :
          (supCase[c] # NoCase /\ supCase'[c].team_id # supCase[c].team_id) =>
              /\ c \in C29_Listed(supCases', supCase[c].team_id)
              /\ c \in C29_Listed(supCases', supCase'[c].team_id)

C29_CaseListsOnlyGrow ==
    /\ [](\A c \in CaseIds : supCase[c] # NoCase =>
             c \in C29_Listed(supCases, supCase[c].team_id))
    /\ [][C29_Step]_vars

\* a case was reassigned and is listed under both teams, and a full team
\* with a closed case was not given the case created last
C29_Witness ==
    \E c, d \in CaseIds, t, u \in TeamIds :
        /\ t # u
        /\ c \in C29_Listed(supCases, t)
        /\ c \in C29_Listed(supCases, u)
        /\ Len(supCases[t]) = ConcurrentCases
        /\ d \in C29_Listed(supCases, t)
        /\ supCase[d].status = "closed"
        /\ \A i \in 1..Len(supTeams) : supTeams[i].status = "active"
        /\ supLast.op = "create_case"
        /\ supLast.raised
        /\ supLast.language = "fr"

\* C30: an update rejected with a validation error is not atomic.
\* update_solution has applied status and deployed_at when it raises for a
\* feature or integration id, and update_content has applied content and
\* metadata when it raises for the channels; updated_at, version and the
\* persisted file are unchanged, as are the fields after the failed check.
C30_Step ==
    /\ (updLast'.op = "update_solution" /\ updLast'.raised) =>
          /\ peSolution'.status = IF updLast'.status # NoStatus
                                  THEN updLast'.status ELSE peSolution.status
          /\ peSolution'.deployed_at =
                (peSolution.deployed_at \/ updLast'.status = "deployed")
          /\ peSolution'.integrations = peSolution.integrations
          /\ peSolution'.updated_at = peSolution.updated_at
          /\ peFile' = peFile
    /\ (updLast'.op = "update_content" /\ updLast'.raised) =>
          /\ mmItem'.content = IF updLast'.content # NoStatus
                               THEN updLast'.content ELSE mmItem.content
          /\ mmItem'.metadata = mmItem.metadata \cup updLast'.first
          /\ mmItem'.channels = mmItem.channels
          /\ mmItem'.status = mmItem.status
          /\ mmItem'.updated_at = mmItem.updated_at
          /\ mmItem'.version = mmItem.version
          /\ mmFile' = mmFile

C30_UpdateNotAtomic == [][C30_Step]_vars

\* a rejected update_solution left the solution 'deployed' in memory and
\* 'planning' on disk; a rejected update_content left new content and
\* metadata in memory only
C30_Witness ==
    /\ peSolution.status = "deployed"
    /\ peSolution.deployed_at
    /\ peSolution.updated_at = 0
    /\ peFile.status = "planning"
    /\ updLast.op = "update_content"
    /\ updLast.raised
    /\ mmItem.content = "text"
    /\ mmItem.metadata = {"author"}
    /\ mmFile.content = "draft text"
    /\ mmItem.version = 0

====
